---- MODULE Spec2Model ----
(***************************************************************************)
(* Enclave thread-state transition engine of the hypervisor               *)
(* (src/src/arch/x86_64/enclave.rs): enclave_enter, enclave_exit,         *)
(* enclave_aex and enclave_resume acting on one virtual CPU, one state    *)
(* save area (SSA) and the live extended registers.                       *)
(*                                                                         *)
(* Bit masks (RFLAGS, EFER, CR4, XCR0, XFRM) are 64-bit words and are      *)
(* represented exactly as the set of their set bit positions (0..63):     *)
(* a & b is a \cap b, a | b is a \cup b.  Opaque words (addresses,        *)
(* register contents) are small naturals.                                 *)
(***************************************************************************)
EXTENDS Integers, FiniteSets, Sequences, TLC

VARIABLES
    vcpu,               \* the virtual CPU: guest registers and control block
    ssa,                \* the enclave thread's state save area
    xregs,              \* live extended registers, one value per component
    nws,                \* normal-world EnclaveThreadState captured by the caller
    pc,                 \* position of the virtual CPU / of enclave_aex
    call,               \* arguments of the enclave_aex in progress
    last,               \* history: the engine call that has just returned
    entered,            \* history: control state before the enter just made
    aexed,              \* history: live state when the pending AEX was taken
    cssa,               \* current SSA index of the enclave thread
    encl_xfrm,          \* XFRM of the enclave the virtual CPU entered
    enclave_interrupt,  \* build-time feature "enclave_interrupt"
    ncalls,             \* number of engine calls made
    shmem,              \* the enclave's shared-memory range descriptor
    rwlock,             \* the reader/writer lock around shmem
    fx,                 \* per core: the fixup_exception call in progress
    wr,                 \* the mutator of the shared-memory range
    secs,               \* the SgxSecs::validate call in progress
    acc,                \* a virtual CPU seen through VcpuAccessGuestState
    ex,                 \* the EnclaveExceptionInfo constructor call just made
    rng                 \* the Rng::fill_bytes call in progress

vars == <<vcpu, ssa, xregs, nws, pc, call, last, entered, aexed, cssa,
          encl_xfrm, enclave_interrupt, ncalls, shmem, rwlock, fx, wr, secs,
          acc, ex, rng>>

enginevars == <<vcpu, ssa, xregs, nws, pc, call, last, entered, aexed, cssa,
                encl_xfrm, enclave_interrupt, ncalls>>
fxvars == <<shmem, rwlock, fx, wr>>
secsvars == <<secs>>
\* What the actions of one part leave alone.
accvars == <<acc>>
exvars == <<ex>>
rngvars == <<rng>>
nonengine == <<fxvars, secsvars, accvars, exvars, rngvars>>
nonfixup == <<enginevars, secsvars, accvars, exvars, rngvars>>
nonsecs == <<enginevars, fxvars, accvars, exvars, rngvars>>
nonacc == <<enginevars, fxvars, secsvars, exvars, rngvars>>
nonex == <<enginevars, fxvars, secsvars, accvars, rngvars>>
nonrng == <<enginevars, fxvars, secsvars, accvars, exvars>>

(***************************************************************************)
(* Bounds of the model.                                                    *)
(***************************************************************************)
MaxVal == 2             \* opaque words range over 0..MaxVal
MaxCalls == 4           \* engine calls (enter, exit, aex, resume) per behaviour

Vals == 0..MaxVal

(***************************************************************************)
(* Bit positions.                                                          *)
(***************************************************************************)
WordBits == 64
CR4_OSFXSR == 9
CR4_OSXSAVE == 18
RFLAGS_INTERRUPT_FLAG == 9
RFLAGS_RESERVED1 == 1
RFLAGS_CARRY_FLAG == 0
EFER_SYSTEM_CALL_EXTENSIONS == 0
EFER_LONG_MODE_ENABLE == 8
EFER_LONG_MODE_ACTIVE == 10
XCR0_FPU_MMX_STATE == 0
XCR0_SSE_STATE == 1
XCR0_AVX_STATE == 2

\* SECS_XFRM_TEMPLATE = XCR0_FPU_MMX_STATE | XCR0_SSE_STATE
SECS_XFRM_TEMPLATE == {XCR0_FPU_MMX_STATE, XCR0_SSE_STATE}

\* Extended-state components the modelled hardware has.
Components == {XCR0_FPU_MMX_STATE, XCR0_SSE_STATE, XCR0_AVX_STATE}

Min(S) == CHOOSE x \in S : \A y \in S : x <= y

\* a - (1 << b) on 64-bit words (wrapping on underflow).
SubBit_NoBorrow(a, b) == a \ {b}
SubBit(a, b) ==
    IF b \in a THEN a \ {b}
    ELSE LET higher == {k \in a : k > b}
         IN  IF higher = {}
             THEN a \cup (b..(WordBits - 1))
             ELSE (a \ {Min(higher)}) \cup (b..(Min(higher) - 1))

(***************************************************************************)
(* Guest general-purpose registers (GuestRegisters; the stack pointer is   *)
(* kept in the control block, not here).                                   *)
(***************************************************************************)
RegSeq == <<"rax", "rcx", "rdx", "rbx", "rbp", "rsi", "rdi", "r8",
            "r9", "r10", "r11", "r12", "r13", "r14", "r15">>
RegNames == {RegSeq[i] : i \in 1..Len(RegSeq)}
RegIndex(r) == CHOOSE i \in 1..Len(RegSeq) : RegSeq[i] = r

\* GuestRegisters::default()
DefaultRegs == [r \in RegNames |-> 0]
\* Register files guest code is observed with: every register holds the
\* same word, or every register holds a different word.
UniformRegs(v) == [r \in RegNames |-> v]
DistinctRegs == [r \in RegNames |-> 10 + RegIndex(r)]
RegFile(s) == IF s = 0 THEN DistinctRegs ELSE UniformRegs(s)

(***************************************************************************)
(* Option values.                                                          *)
(***************************************************************************)
None == [some |-> FALSE]
Some(x) == [some |-> TRUE, val |-> x]

(***************************************************************************)
(* Exception vectors (ExceptionType) and the AexException values the       *)
(* fault path hands to enclave_aex.                                        *)
(***************************************************************************)
InvalidOpcode == 6
GeneralProtectionFault == 13
PageFault == 14

\* MiscSgx::new(maddr, errcd)
MiscSgx(maddr, errcd) == [maddr |-> maddr, errcd |-> errcd]

AexExceptions ==
    { [vec |-> InvalidOpcode, misc |-> None],
      [vec |-> GeneralProtectionFault, misc |-> Some(MiscSgx(0, {1}))],
      [vec |-> PageFault, misc |-> Some(MiscSgx(MaxVal, {0, 2}))] }

\* SgxExitInfo::from_vector(vec): the exit-reason tag of the SSA.
SgxExitInfo_from_vector(vec) == [valid |-> TRUE, vector |-> vec]
NoExitInfo == [valid |-> FALSE, vector |-> 0]

\* HyperCallCode::EnclaveResume
EnclaveResume == 19

(***************************************************************************)
(* EnclaveThreadState and the state-access layer of the virtual CPU.       *)
(***************************************************************************)
ThreadStateFields == {"rflags", "fs_base", "gs_base", "xcr0",
                      "hv_page_table_root", "page_table_root", "efer",
                      "idtr_base", "idtr_limit"}

\* VcpuAccessEnclaveState::load_enclave_thread_state
load_enclave_thread_state(v) == [f \in ThreadStateFields |-> v[f]]

\* VcpuAccessEnclaveState::store_enclave_thread_state; `ok` is whether the
\* control block accepts the write.  A rejected write changes nothing.
\* The field `stores` is history: the number of calls of this function.
store_enclave_thread_state(v, entry_ip, state, is_enter, ok) ==
    IF ~ok THEN [v EXCEPT !.stores = @ + 1]
    ELSE [v EXCEPT !.rip = entry_ip,
                   !.rflags = state.rflags,
                   !.fs_base = state.fs_base,
                   !.gs_base = state.gs_base,
                   !.xcr0 = state.xcr0,
                   !.hv_page_table_root = state.hv_page_table_root,
                   !.page_table_root = state.page_table_root,
                   !.efer = state.efer,
                   !.idtr_base = state.idtr_base,
                   !.idtr_limit = state.idtr_limit,
                   !.is_enter = is_enter,
                   !.stores = @ + 1]

(***************************************************************************)
(* Extended-register save area (XsaveRegion).  XSAVE/XRSTOR act on the     *)
(* components of the requested mask that the live XCR0 enables.            *)
(***************************************************************************)
XInit == 0
XInitRegs == [i \in Components |-> XInit]

\* XsaveRegion::save(xfrm)
XsaveRegion_save(region, xfrm, live, xcr0) ==
    LET rfbm == xfrm \cap xcr0 \cap Components
    IN  [bv   |-> (region.bv \ rfbm) \cup {i \in rfbm : live[i] # XInit},
         comp |-> [i \in Components |->
                      IF i \in rfbm THEN live[i] ELSE region.comp[i]]]

\* XsaveRegion::restore(xfrm): the new live extended registers
XsaveRegion_restore(region, xfrm, live, xcr0) ==
    LET rfbm == xfrm \cap xcr0 \cap Components
    IN  [i \in Components |->
            IF i \in rfbm
            THEN (IF i \in region.bv THEN region.comp[i] ELSE XInit)
            ELSE live[i]]

\* The value XRSTOR loads for component i from an image.
ImageValue(region, i) == IF i \in region.bv THEN region.comp[i] ELSE XInit

\* XsaveRegion::validate_at_resume(xfrm): the image names no component
\* outside xfrm.
XsaveRegion_validate_at_resume(region, xfrm) == region.bv \subseteq xfrm

\* XSAVE_SYNTHETIC_STATE: the image of the initial configuration
XSAVE_SYNTHETIC_STATE == [bv |-> {}, comp |-> XInitRegs]

(***************************************************************************)
(* EnclaveThreadState::validate_xfrm                                       *)
(***************************************************************************)
validate_xfrm_NoTemplateCheck(v, xfrm) ==
    IF CR4_OSFXSR \notin v.cr4 THEN "EINVAL"
    ELSE IF CR4_OSXSAVE \in v.cr4
         THEN (IF (v.xcr0 \cap xfrm) # xfrm THEN "EINVAL" ELSE "Ok")
         ELSE "Ok"

validate_xfrm_NoOsfxsr(v, xfrm) ==
    IF CR4_OSXSAVE \in v.cr4
    THEN (IF (v.xcr0 \cap xfrm) # xfrm THEN "EINVAL" ELSE "Ok")
    ELSE IF xfrm # SECS_XFRM_TEMPLATE THEN "EINVAL"
    ELSE "Ok"

validate_xfrm_NoSubsetCheck(v, xfrm) ==
    IF CR4_OSFXSR \notin v.cr4 THEN "EINVAL"
    ELSE IF CR4_OSXSAVE \in v.cr4 THEN "Ok"
    ELSE IF xfrm # SECS_XFRM_TEMPLATE THEN "EINVAL"
    ELSE "Ok"

validate_xfrm(v, xfrm) ==
    IF CR4_OSFXSR \notin v.cr4 THEN "EINVAL"
    ELSE IF CR4_OSXSAVE \in v.cr4
         THEN (IF (v.xcr0 \cap xfrm) # xfrm THEN "EINVAL" ELSE "Ok")
         ELSE IF xfrm # SECS_XFRM_TEMPLATE THEN "EINVAL"
         ELSE "Ok"

(***************************************************************************)
(* EnclaveThreadState::enclave_enter.  a: the arguments; ei: the           *)
(* enclave_interrupt feature; ok: whether the thread-state store commits.  *)
(* The result is [err, vcpu].                                              *)
(***************************************************************************)
\* lines 205-210: the flags of the secure world
EnterFlags_Keep(v, ei) == v.rflags

EnterFlags(v, ei) ==
    IF ei THEN v.rflags \cup {RFLAGS_INTERRUPT_FLAG}
          ELSE v.rflags \ {RFLAGS_INTERRUPT_FLAG}

\* lines 224-225: rax and rcx as the secure world finds them
EnterRegs_EntryIp(v, a) ==
    [v EXCEPT !.regs["rax"] = a.cssa, !.regs["rcx"] = a.entry_ip]

EnterRegs(v, a) ==
    [v EXCEPT !.regs["rax"] = a.cssa, !.regs["rcx"] = v.rip]

enclave_enter(v, a, ei, ok) ==
    IF validate_xfrm(v, a.xfrm) # "Ok"
    THEN [err |-> "EINVAL", vcpu |-> v]
    ELSE
    LET rflags == EnterFlags(v, ei)
        efer == SubBit(v.efer, EFER_SYSTEM_CALL_EXTENSIONS)
        sec_world_state ==
            [rflags |-> rflags, fs_base |-> a.fs_base, gs_base |-> a.gs_base,
             xcr0 |-> a.xfrm, idtr_base |-> 0, idtr_limit |-> 0,
             efer |-> efer,
             hv_page_table_root |-> a.hv_page_table_root,
             page_table_root |-> a.page_table_root]
        v1 == EnterRegs(v, a)
    IN  [err  |-> IF ok THEN "Ok" ELSE "EIO",
         vcpu |-> store_enclave_thread_state(v1, a.entry_ip, sec_world_state,
                                             TRUE, ok)]

(***************************************************************************)
(* EnclaveThreadState::enclave_exit                                        *)
(***************************************************************************)
enclave_exit_NoStore(v, exit_ip, aep, normal_world_state, ok) ==
    [err |-> "Ok", vcpu |-> [v EXCEPT !.regs["rcx"] = aep]]

enclave_exit_Validates(v, exit_ip, aep, normal_world_state, ok) ==
    LET v1 == store_enclave_thread_state(v, exit_ip, normal_world_state,
                                         FALSE, ok)
    IN  IF validate_xfrm(v, normal_world_state.xcr0) # "Ok"
        THEN [err |-> "EINVAL", vcpu |-> v]
        ELSE IF ~ok THEN [err |-> "EIO", vcpu |-> v1]
        ELSE [err |-> "Ok", vcpu |-> [v1 EXCEPT !.regs["rcx"] = aep]]

enclave_exit(v, exit_ip, aep, normal_world_state, ok) ==
    LET v1 == store_enclave_thread_state(v, exit_ip, normal_world_state,
                                         FALSE, ok)
    IN  IF ~ok THEN [err |-> "EIO", vcpu |-> v1]
        ELSE [err |-> "Ok", vcpu |-> [v1 EXCEPT !.regs["rcx"] = aep]]

(***************************************************************************)
(* EnclaveThreadState::enclave_aex.  m = [vcpu, ssa, xregs] is the machine *)
(* state the handler works on; a = [aex_excep, aep, xfrm, tcs_vaddr,       *)
(* normal_world_state] are its arguments and ok is whether the             *)
(* thread-state store commits.  The handler is the sequence of steps       *)
(* AexOrder.                                                               *)
(***************************************************************************)
\* lines 250-272: live registers and the exit-reason tag into ssa.gpr
AexSaveGpr(m, a) ==
    [m EXCEPT !.ssa.gpr.regs = m.vcpu.regs,
              !.ssa.gpr.rsp = m.vcpu.rsp,
              !.ssa.gpr.rflags = m.vcpu.rflags,
              !.ssa.gpr.rip = m.vcpu.rip,
              !.ssa.gpr.exit_info = SgxExitInfo_from_vector(a.aex_excep.vec),
              !.ssa.gpr.fs_base = m.vcpu.fs_base,
              !.ssa.gpr.gs_base = m.vcpu.gs_base]

\* lines 274-278: the optional misc detail into ssa.misc
AexSaveMisc_ClearOnNone(m, a) ==
    IF a.aex_excep.misc.some
    THEN [m EXCEPT !.ssa.misc.exinfo.maddr = a.aex_excep.misc.val.maddr,
                   !.ssa.misc.exinfo.errcd = a.aex_excep.misc.val.errcd]
    ELSE [m EXCEPT !.ssa.misc.exinfo = MiscSgx(0, {})]

AexSaveMisc(m, a) ==
    IF a.aex_excep.misc.some
    THEN [m EXCEPT !.ssa.misc.exinfo.maddr = a.aex_excep.misc.val.maddr,
                   !.ssa.misc.exinfo.errcd = a.aex_excep.misc.val.errcd]
    ELSE m

\* line 285: xsave_region.save(xfrm)
AexXsave(m, a) ==
    [m EXCEPT !.ssa.xsave =
        XsaveRegion_save(m.ssa.xsave, a.xfrm, m.xregs, m.vcpu.xcr0)]

\* line 289: XSAVE_SYNTHETIC_STATE.restore(xfrm)
AexXinit_Skip(m, a) == m

AexXinit(m, a) ==
    [m EXCEPT !.xregs =
        XsaveRegion_restore(XSAVE_SYNTHETIC_STATE, a.xfrm, m.xregs, m.vcpu.xcr0)]

\* line 291: vcpu.store_enclave_thread_state(aep, normal_world_state, false)
AexStore_Retry(m, a, ok) ==
    LET v1 == store_enclave_thread_state(m.vcpu, a.aep, a.normal_world_state,
                                         FALSE, ok)
    IN  [m EXCEPT !.vcpu =
            IF ok THEN v1
            ELSE store_enclave_thread_state(v1, a.aep, a.normal_world_state,
                                            FALSE, ok)]

AexStore(m, a, ok) ==
    [m EXCEPT !.vcpu =
        store_enclave_thread_state(m.vcpu, a.aep, a.normal_world_state,
                                   FALSE, ok)]

\* lines 293-299: scrub, hand-off registers, user frame and stack pointer
AexScrub_NoScrub(m, a) ==
    [m EXCEPT !.vcpu.regs = [m.vcpu.regs EXCEPT !["rax"] = EnclaveResume,
                                                !["rbx"] = a.tcs_vaddr,
                                                !["rcx"] = a.aep,
                                                !["rbp"] = m.ssa.gpr.urbp],
              !.vcpu.rsp = m.ssa.gpr.ursp]

AexScrub_KeepRsp(m, a) ==
    [m EXCEPT !.vcpu.regs = [DefaultRegs EXCEPT !["rax"] = EnclaveResume,
                                                !["rbx"] = a.tcs_vaddr,
                                                !["rcx"] = a.aep,
                                                !["rbp"] = m.ssa.gpr.urbp]]

AexScrub_NoRbp(m, a) ==
    [m EXCEPT !.vcpu.regs = [DefaultRegs EXCEPT !["rax"] = EnclaveResume,
                                                !["rbx"] = a.tcs_vaddr,
                                                !["rcx"] = a.aep],
              !.vcpu.rsp = m.ssa.gpr.ursp]

AexScrub(m, a) ==
    [m EXCEPT !.vcpu.regs = [DefaultRegs EXCEPT !["rax"] = EnclaveResume,
                                                !["rbx"] = a.tcs_vaddr,
                                                !["rcx"] = a.aep,
                                                !["rbp"] = m.ssa.gpr.urbp],
              !.vcpu.rsp = m.ssa.gpr.ursp]

\* The order in which enclave_aex performs its steps.
AexOrder_StoreFirst ==
    <<"store", "gpr", "misc", "xsave", "xinit", "scrub">>
AexOrder_ScrubBeforeStore ==
    <<"gpr", "misc", "xsave", "xinit", "scrub", "store">>
AexOrder ==
    <<"gpr", "misc", "xsave", "xinit", "store", "scrub">>

AexStepFn(name, m, a, ok) ==
    CASE name = "gpr"   -> AexSaveGpr(m, a)
      [] name = "misc"  -> AexSaveMisc(m, a)
      [] name = "xsave" -> AexXsave(m, a)
      [] name = "xinit" -> AexXinit(m, a)
      [] name = "store" -> AexStore(m, a, ok)
      [] name = "scrub" -> AexScrub(m, a)

\* The `?` after the store: a store that does not commit ends the handler.
AexReturnsAt(k, ok) == AexOrder[k] = "store" /\ ~ok

RECURSIVE AexFrom(_, _, _, _)
AexFrom(k, m, a, ok) ==
    IF k > Len(AexOrder) THEN [err |-> "Ok", m |-> m]
    ELSE LET m1 == AexStepFn(AexOrder[k], m, a, ok)
         IN  IF AexReturnsAt(k, ok) THEN [err |-> "EIO", m |-> m1]
             ELSE AexFrom(k + 1, m1, a, ok)

enclave_aex(m, a, ok) == AexFrom(1, m, a, ok)

(***************************************************************************)
(* EnclaveThreadState::enclave_resume.  a = [xfrm, hv_page_table_root,     *)
(* page_table_root, ok]; the SSA is m.ssa.  The result is [err, m].        *)
(***************************************************************************)
\* lines 310-313: validate_xfrm, then xsave_region.validate_at_resume
ResValidate_NoXsaveCheck(m, a) ==
    IF validate_xfrm(m.vcpu, a.xfrm) # "Ok" THEN "EINVAL" ELSE "Ok"

ResValidate_SubsetOnly(m, a) ==
    IF (m.vcpu.xcr0 \cap a.xfrm) # a.xfrm THEN "EINVAL"
    ELSE IF ~XsaveRegion_validate_at_resume(m.ssa.xsave, a.xfrm) THEN "EINVAL"
    ELSE "Ok"

ResValidate(m, a) ==
    IF validate_xfrm(m.vcpu, a.xfrm) # "Ok" THEN "EINVAL"
    ELSE IF ~XsaveRegion_validate_at_resume(m.ssa.xsave, a.xfrm) THEN "EINVAL"
    ELSE "Ok"

\* lines 315-329: build sec_world_state and store it with is_enter = true
ResStore_ClearIF(m, a, ok) ==
    LET gpr == m.ssa.gpr
        sec_world_state ==
            [fs_base |-> gpr.fs_base, gs_base |-> gpr.gs_base,
             xcr0 |-> a.xfrm, rflags |-> gpr.rflags \ {RFLAGS_INTERRUPT_FLAG},
             idtr_base |-> 0, idtr_limit |-> 0,
             efer |-> SubBit(m.vcpu.efer, EFER_SYSTEM_CALL_EXTENSIONS),
             hv_page_table_root |-> a.hv_page_table_root,
             page_table_root |-> a.page_table_root]
    IN  [m EXCEPT !.vcpu =
            store_enclave_thread_state(m.vcpu, gpr.rip, sec_world_state,
                                       TRUE, ok)]

ResStore(m, a, ok) ==
    LET gpr == m.ssa.gpr
        sec_world_state ==
            [fs_base |-> gpr.fs_base, gs_base |-> gpr.gs_base,
             xcr0 |-> a.xfrm, rflags |-> gpr.rflags,
             idtr_base |-> 0, idtr_limit |-> 0,
             efer |-> SubBit(m.vcpu.efer, EFER_SYSTEM_CALL_EXTENSIONS),
             hv_page_table_root |-> a.hv_page_table_root,
             page_table_root |-> a.page_table_root]
    IN  [m EXCEPT !.vcpu =
            store_enclave_thread_state(m.vcpu, gpr.rip, sec_world_state,
                                       TRUE, ok)]

\* line 335: xsave_region.restore(xfrm), under the XCR0 now live
ResXrstor_ConsumeImage(m, a) ==
    [m EXCEPT !.xregs =
                 XsaveRegion_restore(m.ssa.xsave, a.xfrm, m.xregs, m.vcpu.xcr0),
              !.ssa.xsave.bv = {}]

ResXrstor(m, a) ==
    [m EXCEPT !.xregs =
        XsaveRegion_restore(m.ssa.xsave, a.xfrm, m.xregs, m.vcpu.xcr0)]

\* lines 337-353: copy the general registers and the stack pointer
ResRegs_KeepRsp(m, a) ==
    [m EXCEPT !.vcpu.regs = m.ssa.gpr.regs]

ResRegs(m, a) ==
    [m EXCEPT !.vcpu.regs = m.ssa.gpr.regs, !.vcpu.rsp = m.ssa.gpr.rsp]

\* The order in which enclave_resume performs its writes.
ResumeOrder_XrstorFirst == <<"xrstor", "store", "regs">>

ResumeOrder_RegsFirst == <<"regs", "store", "xrstor">>

ResumeOrder == <<"store", "xrstor", "regs">>

ResStepFn(name, m, a, ok) ==
    CASE name = "store"  -> ResStore(m, a, ok)
      [] name = "xrstor" -> ResXrstor(m, a)
      [] name = "regs"   -> ResRegs(m, a)

\* The ? after store_enclave_thread_state returns its error.
ResReturnsAt(k, ok) == ResumeOrder[k] = "store" /\ ~ok

RECURSIVE ResFrom(_, _, _, _)
ResFrom(k, m, a, ok) ==
    IF k > Len(ResumeOrder) THEN [err |-> "Ok", m |-> m]
    ELSE LET m1 == ResStepFn(ResumeOrder[k], m, a, ok)
         IN  IF ResReturnsAt(k, ok) THEN [err |-> "EIO", m |-> m1]
             ELSE ResFrom(k + 1, m1, a, ok)

enclave_resume(m, a) ==
    IF ResValidate(m, a) # "Ok" THEN [err |-> "EINVAL", m |-> m]
    ELSE ResFrom(1, m, a, a.ok)

(***************************************************************************)
(* Enclave::fixup_exception: the classification of a fault taken while an  *)
(* enclave thread runs.  Error codes are sets of bit positions, addresses  *)
(* are numbers of 0..MaxAddr, a range is [start, end).                     *)
(***************************************************************************)
PAGE_SIZE == 2
PF_PROTECTION_VIOLATION == 0
PF_USER_MODE == 2
SHARED_MEM_FETCH == 31
PF_CAUSED_BY_WRITE == 1
PF_MALFORMED_TABLE == 3
PF_INSTRUCTION_FETCH == 4
EPCM_ATTR_MISMATCH == 15
\* PageFaultErrorCode::all()
PageFaultErrorCode_all ==
    {PF_PROTECTION_VIOLATION, PF_CAUSED_BY_WRITE, PF_USER_MODE,
     PF_MALFORMED_TABLE, PF_INSTRUCTION_FETCH}
\* EnclavePFErrorCode::X86_PF_ERROR_CODE
X86_PF_ERROR_CODE_Wide == 0 .. SHARED_MEM_FETCH

X86_PF_ERROR_CODE == PageFaultErrorCode_all

align_down(addr) == addr - (addr % PAGE_SIZE)

Contains(range, addr) == range.start <= addr /\ addr < range.end

\* ExceptionInfo::new
ExceptionInfo(exception_type, error_code, fault_address) ==
    [exception_type |-> exception_type, error_code |-> error_code,
     cr2 |-> fault_address]

HvOk(x) == [kind |-> "Ok", val |-> x]
HvErr(errno) == [kind |-> "Err", errno |-> errno]

\* EnclaveExceptionInfo::page_fault_in_encl
page_fault_in_encl_ExactForLinux(errcd_for_linux, errcd_for_misc, fault_vaddr) ==
    [linux_info |-> ExceptionInfo(PageFault, Some(errcd_for_linux),
                                  Some(fault_vaddr)),
     aex_excep |-> Some([vec |-> PageFault,
                         misc |-> Some(MiscSgx(fault_vaddr, errcd_for_misc))])]

page_fault_in_encl(errcd_for_linux, errcd_for_misc, fault_vaddr) ==
    [linux_info |-> ExceptionInfo(PageFault, Some(errcd_for_linux),
                                  Some(align_down(fault_vaddr))),
     aex_excep |-> Some([vec |-> PageFault,
                         misc |-> Some(MiscSgx(fault_vaddr, errcd_for_misc))])]

\* EnclaveExceptionInfo::page_fault_out_encl
page_fault_out_encl(error_code, fault_vaddr) ==
    [linux_info |-> ExceptionInfo(PageFault, Some(error_code),
                                  Some(fault_vaddr)),
     aex_excep |-> None]

\* EnclaveExceptionInfo::invalid_opcode
invalid_opcode(in_encl_mode) ==
    [linux_info |-> ExceptionInfo(InvalidOpcode, None, None),
     aex_excep |-> IF in_encl_mode
                   THEN Some([vec |-> InvalidOpcode, misc |-> None])
                   ELSE None]

\* EnclaveExceptionInfo::general_protection
general_protection_Always(error_code, cpu_state) ==
    [linux_info |-> ExceptionInfo(GeneralProtectionFault, Some(error_code),
                                  None),
     aex_excep |-> Some([vec |-> GeneralProtectionFault,
                         misc |-> Some(MiscSgx(0, error_code))])]

general_protection(error_code, cpu_state) ==
    [linux_info |-> ExceptionInfo(GeneralProtectionFault, Some(error_code),
                                  None),
     aex_excep |-> IF cpu_state = "EnclaveRunning"
                   THEN Some([vec |-> GeneralProtectionFault,
                              misc |-> Some(MiscSgx(0, error_code))])
                   ELSE None]

\* The same constructors in arch/arm/enclave.rs: the secure-world view is
\* an ExceptionInfo.
arm_invalid_opcode(in_encl_mode) ==
    LET info == ExceptionInfo("UndefinedInstruction", None, None)
    IN  [linux_info |-> info,
         aex_excep |-> IF in_encl_mode THEN Some(info) ELSE None]

arm_general_protection(error_code, cpu_state) ==
    LET info == ExceptionInfo("DataAbort", Some(error_code), None)
    IN  [linux_info |-> info,
         aex_excep |-> IF cpu_state = "EnclaveRunning" THEN Some(info)
                       ELSE None]

arm_page_fault_in_encl(errcd_for_linux, errcd_for_misc, fault_vaddr) ==
    [linux_info |-> ExceptionInfo(PageFault, Some(errcd_for_linux),
                                  Some(align_down(fault_vaddr))),
     aex_excep |-> Some(ExceptionInfo(PageFault, Some(errcd_for_misc),
                                      Some(fault_vaddr)))]

arm_page_fault_out_encl(error_code, fault_vaddr) ==
    [linux_info |-> ExceptionInfo(PageFault, Some(error_code),
                                  Some(fault_vaddr)),
     aex_excep |-> None]

\* Enclave::fixup_pf_in_elrange: injected with matching error codes.
fixup_pf_in_elrange(error_code, fault_gvaddr) ==
    HvOk(Some(page_fault_in_encl(error_code, error_code, fault_gvaddr)))

\* The page-fault part of fixup_exception, lines 496-532.  in_shmem is the
\* value of self.shmem().read().contains(&fault_gvaddr).
fixup_pf_RawLinuxCode(error_code, fault_gvaddr, in_elrange, in_shmem) ==
    IF fault_gvaddr = 0
    THEN HvOk(Some(page_fault_in_encl(error_code, error_code, fault_gvaddr)))
    ELSE IF in_elrange THEN fixup_pf_in_elrange(error_code, fault_gvaddr)
    ELSE IF in_shmem
    THEN HvOk(Some(page_fault_in_encl(
             error_code, error_code \cup {SHARED_MEM_FETCH}, fault_gvaddr)))
    ELSE HvOk(Some(page_fault_in_encl(error_code, error_code, fault_gvaddr)))

fixup_pf_NoShmemFlag(error_code, fault_gvaddr, in_elrange, in_shmem) ==
    IF fault_gvaddr = 0
    THEN HvOk(Some(page_fault_in_encl(error_code, error_code, fault_gvaddr)))
    ELSE IF in_elrange THEN fixup_pf_in_elrange(error_code, fault_gvaddr)
    ELSE IF in_shmem
    THEN HvOk(Some(page_fault_in_encl(error_code, error_code, fault_gvaddr)))
    ELSE HvOk(Some(page_fault_in_encl(
             {PF_PROTECTION_VIOLATION, PF_USER_MODE}, error_code,
             fault_gvaddr)))

fixup_pf_NoNullCheck(error_code, fault_gvaddr, in_elrange, in_shmem) ==
    IF in_elrange THEN fixup_pf_in_elrange(error_code, fault_gvaddr)
    ELSE IF in_shmem
    THEN HvOk(Some(page_fault_in_encl(
             error_code, error_code \cup {SHARED_MEM_FETCH}, fault_gvaddr)))
    ELSE HvOk(Some(page_fault_in_encl(
             {PF_PROTECTION_VIOLATION, PF_USER_MODE}, error_code,
             fault_gvaddr)))

fixup_pf(error_code, fault_gvaddr, in_elrange, in_shmem) ==
    IF fault_gvaddr = 0
    THEN HvOk(Some(page_fault_in_encl(error_code, error_code, fault_gvaddr)))
    ELSE IF in_elrange THEN fixup_pf_in_elrange(error_code, fault_gvaddr)
    ELSE IF in_shmem
    THEN HvOk(Some(page_fault_in_encl(
             error_code, error_code \cup {SHARED_MEM_FETCH}, fault_gvaddr)))
    ELSE HvOk(Some(page_fault_in_encl(
             {PF_PROTECTION_VIOLATION, PF_USER_MODE}, error_code,
             fault_gvaddr)))

\* fixup_exception, lines 450-533; error_code and fault_gvaddr are Options.
fixup_exception_MiscAlways(vec, error_code, fault_gvaddr, in_elrange, in_shmem) ==
    IF vec # PageFault
    THEN IF error_code = None THEN HvErr("EINVAL")
         ELSE HvOk(Some(
                [linux_info |-> ExceptionInfo(vec, error_code, None),
                 aex_excep |-> Some([vec |-> vec,
                     misc |-> Some(MiscSgx(0, error_code.val))])]))
    ELSE IF fault_gvaddr = None THEN HvErr("EINVAL")
    ELSE IF error_code = None THEN HvErr("EINVAL")
    ELSE fixup_pf(error_code.val, fault_gvaddr.val, in_elrange, in_shmem)

fixup_exception_DefaultsMissing(vec, error_code, fault_gvaddr, in_elrange, in_shmem) ==
    LET ec == IF error_code = None THEN {} ELSE error_code.val
        ga == IF fault_gvaddr = None THEN 0 ELSE fault_gvaddr.val
    IN  IF vec # PageFault
        THEN HvOk(Some(
               [linux_info |-> ExceptionInfo(vec, error_code, None),
                aex_excep |-> Some([vec |-> vec,
                    misc |-> IF vec = GeneralProtectionFault
                             THEN Some(MiscSgx(0, ec)) ELSE None])]))
        ELSE fixup_pf(ec, ga, in_elrange, in_shmem)

fixup_exception(vec, error_code, fault_gvaddr, in_elrange, in_shmem) ==
    IF vec # PageFault
    THEN IF vec = GeneralProtectionFault /\ error_code = None
         THEN HvErr("EINVAL")
         ELSE HvOk(Some(
                [linux_info |-> ExceptionInfo(vec, error_code, None),
                 aex_excep |-> Some([vec |-> vec,
                     misc |-> IF vec = GeneralProtectionFault
                              THEN Some(MiscSgx(0, error_code.val))
                              ELSE None])]))
    ELSE IF fault_gvaddr = None THEN HvErr("EINVAL")
    ELSE IF error_code = None THEN HvErr("EINVAL")
    ELSE fixup_pf(error_code.val, fault_gvaddr.val, in_elrange, in_shmem)

\* Whether the call reaches the shared-memory lookup of line 510.
ReadsShmem_BeforeElrange(vec, error_code, fault_gvaddr, in_elrange) ==
    /\ vec = PageFault
    /\ fault_gvaddr # None
    /\ error_code # None
    /\ fault_gvaddr.val # 0

ReadsShmem(vec, error_code, fault_gvaddr, in_elrange) ==
    /\ vec = PageFault
    /\ fault_gvaddr # None
    /\ error_code # None
    /\ fault_gvaddr.val # 0
    /\ ~in_elrange

(***************************************************************************)
(* The enclave's ranges, the cores that classify faults and the inputs     *)
(* they are called with.                                                   *)
(***************************************************************************)
MaxAddr == 7
Cores == {1, 2}

\* self.elrange(): fixed at enclave creation.
ELRANGE == [start |-> 2, end |-> 4]
\* The values the shared-memory range takes over time; the second one
\* holds the null address and overlaps the private range.
ShmemRanges == { [start |-> 4, end |-> 5], [start |-> 0, end |-> 4] }

FaultVectors == {InvalidOpcode, GeneralProtectionFault, PageFault}
ErrCodes == { {}, {1, 4}, {PF_PROTECTION_VIOLATION, PF_USER_MODE, 15} }
OptErrCodes == {None} \cup {Some(e) : e \in ErrCodes}
OptAddrs == {None} \cup {Some(a) : a \in 0..MaxAddr}

InElrange(fault_gvaddr) ==
    fault_gvaddr.some /\ Contains(ELRANGE, fault_gvaddr.val)

NoResult == [kind |-> "none"]
FxIdle == [pc |-> "idle"]
WrIdle == [pc |-> "idle"]
RwLockFree == [readers |-> {}, writer |-> FALSE]

\* Range values a reader may legitimately see now: the descriptor as it
\* is, or, while a mutation is under way, as it was before or will be after.
CommittedRanges == IF wr.pc = "idle" THEN {shmem} ELSE {wr.old, wr.new}

CpuStates == {"HyperVisor", "EnclaveRunning", "NormalLinux"}
ExInit == ex = [ctor |-> "none"]

(***************************************************************************)
(* yogcrypt's random.rs: getrandom fills a byte buffer from 32-bit         *)
(* hardware random words.  A byte ranges over 0..MaxByte, a word is        *)
(* WordSize bytes, and do_rdrand is known by its declaration only: it      *)
(* returns 0 on failure and otherwise has written one word.                *)
(***************************************************************************)
MaxLen == 6
MaxByte == 1
WordSize == 4
ByteRadix == MaxByte + 1
RandWords == 0 .. (ByteRadix * ByteRadix * ByteRadix * ByteRadix - 1)

RECURSIVE pow(_, _)
pow(b, n) == IF n = 0 THEN 1 ELSE b * pow(b, n - 1)

\* u32::to_ne_bytes on a little-endian target
to_ne_bytes(w) == [i \in 1 .. WordSize |-> (w \div pow(ByteRadix, i - 1)) % ByteRadix]

\* <[u8]>::copy_from_slice onto buf[off+1 .. off+n]: the two slices must
\* have the same length, otherwise the call panics
copy_from_slice(buf, off, n, src) ==
    IF n # Len(src)
    THEN [panicked |-> TRUE, buf |-> buf]
    ELSE [panicked |-> FALSE,
          buf |-> [i \in 1 .. Len(buf) |->
                      IF i > off /\ i <= off + n THEN src[i - off] ELSE buf[i]]]

\* one pass of the while loop of getrandom with a non-empty to_fill;
\* ok and w are the outcome of do_rdrand
getrandom_body(r, ok, w) ==
    IF ~ok
    THEN [r EXCEPT !.pc = "abort", !.failed = TRUE]
    ELSE LET copy_len == Min({Len(r.buf) - r.off, WordSize})
             res == copy_from_slice(r.buf, r.off, copy_len, to_ne_bytes(w))
         IN  IF res.panicked
             THEN [r EXCEPT !.pc = "panic", !.words = Append(@, w)]
             ELSE [r EXCEPT !.buf = res.buf, !.off = @ + copy_len,
                            !.words = Append(@, w)]

RngIdle == [pc |-> "idle", buf |-> <<>>, off |-> 0, words |-> <<>>,
            failed |-> FALSE]
RngInit == rng = RngIdle

FxInit ==
    /\ shmem = [start |-> 4, end |-> 5]
    /\ rwlock = RwLockFree
    /\ fx = [c \in Cores |-> FxIdle]
    /\ wr = WrIdle

(***************************************************************************)
(* SgxSecs::validate: the checks on an enclave descriptor.  Sizes are      *)
(* scaled: a page is PAGE_SIZE bytes, the extended-state components are    *)
(* the bits 2 .. LastLeaf, and the CPUID view is cpuid = [supported, info] *)
(* with info[k] = [offset, size] of component k.                           *)
(***************************************************************************)
MaxOffset == 5
MaxCompSize == 2
MaxFrames == 4

XSAVE_LEGACY_REGION_SIZE == 2
XSAVE_HEADER_SIZE == 1
\* size_of::<MiscSgx>() and size_of::<GprSgx>()
MiscSgxSize == 1
GprSgxSize == 1
SSA_FRAME_SIZE == 6

XCR0_BNDREG_STATE == 3
\* line 410: for sub_leaf in 2..=63
LastLeaf == XCR0_BNDREG_STATE
XsaveLeaves == XCR0_AVX_STATE .. LastLeaf

RECURSIVE is_power_of_two(_)
is_power_of_two(n) ==
    /\ n > 0
    /\ \/ n = 1
       \/ n % 2 = 0 /\ is_power_of_two(n \div 2)

is_aligned(addr) == addr % PAGE_SIZE = 0

\* lines 410-419: the scan from component k on, with the area kept so far
RECURSIVE XsaveScan_LastWins(_, _, _, _, _)
XsaveScan_LastWins(k, xfrm, info, offset, size) ==
    IF k > LastLeaf THEN offset + size
    ELSE IF k \in xfrm
         THEN XsaveScan_LastWins(k + 1, xfrm, info, info[k].offset,
                                 info[k].size)
         ELSE XsaveScan_LastWins(k + 1, xfrm, info, offset, size)

RECURSIVE XsaveScan(_, _, _, _, _)
XsaveScan(k, xfrm, info, offset, size) ==
    IF k > LastLeaf THEN offset + size
    ELSE IF k \in xfrm /\ info[k].offset >= offset + size
         THEN XsaveScan(k + 1, xfrm, info, info[k].offset, info[k].size)
         ELSE XsaveScan(k + 1, xfrm, info, offset, size)

\* lines 405-421
xsave_size(xfrm, info) ==
    XsaveScan(XCR0_AVX_STATE, xfrm, info,
              XSAVE_LEGACY_REGION_SIZE + XSAVE_HEADER_SIZE, 0)

\* line 361
SecsSizeOk_NoMinimum(size) == is_power_of_two(size)

SecsSizeOk(size) == ~(size < PAGE_SIZE \/ ~is_power_of_two(size))

\* line 393
XfrmSupported_Any(xfrm, xcr0_supported_bits) == TRUE

XfrmSupported(xfrm, xcr0_supported_bits) ==
    ~((xfrm \cap xcr0_supported_bits) # xfrm)

\* line 436
FrameCeilingOk_None(ssa_frame_size_needed) == TRUE

FrameCeilingOk(ssa_frame_size_needed) ==
    ~(ssa_frame_size_needed > SSA_FRAME_SIZE)

\* The result: the error, the check that raised it and, once computed, the
\* minimum extended-state save size.
SecsErr(check, size) == [err |-> "EINVAL", check |-> check, xsave_size |-> size]
SecsOk(size) == [err |-> "Ok", check |-> "none", xsave_size |-> size]

SgxSecs_validate(s, cpuid) ==
    IF ~SecsSizeOk(s.size) THEN SecsErr("size", None)
    ELSE IF s.ms_buf_size = 0 \/ ~is_aligned(s.ms_buf_size)
    THEN SecsErr("ms_buf_size", None)
    ELSE IF (s.xfrm \cap SECS_XFRM_TEMPLATE) # SECS_XFRM_TEMPLATE
    THEN SecsErr("xfrm_template", None)
    ELSE IF ~XfrmSupported(s.xfrm, cpuid.supported)
    THEN SecsErr("xfrm_supported", None)
    ELSE
    LET xs == xsave_size(s.xfrm, cpuid.info)
        ssa_frame_size_needed == xs + MiscSgxSize + GprSgxSize
        ssa_frame_size_from_user == s.ssa_frame_size * PAGE_SIZE
    IN  IF ssa_frame_size_needed > ssa_frame_size_from_user
        THEN SecsErr("ssa_frame_size", Some(xs))
        ELSE IF ~FrameCeilingOk(ssa_frame_size_needed)
        THEN SecsErr("SSA_FRAME_SIZE", Some(xs))
        ELSE SecsOk(Some(xs))

\* Descriptors and CPUID views the function is applied to.
SecsInputs ==
    [size : 1 .. 2 * PAGE_SIZE,
     ms_buf_size : 0 .. PAGE_SIZE,
     xfrm : SUBSET (0 .. LastLeaf),
     ssa_frame_size : 0 .. MaxFrames]
CpuidViews ==
    [supported : {SECS_XFRM_TEMPLATE \cup {XCR0_AVX_STATE},
                  SECS_XFRM_TEMPLATE \cup XsaveLeaves},
     info : [XsaveLeaves ->
                [offset : XSAVE_LEGACY_REGION_SIZE .. MaxOffset,
                 size : 0 .. MaxCompSize]]]

SecsIdle == [pc |-> "idle"]
SecsInit == secs = SecsIdle

(***************************************************************************)
(* VcpuAccessGuestState: the register accessors of the virtual-CPU         *)
(* backends.  st = [x, sp, pc, cr] is what a backend keeps: one general     *)
(* register, stack pointer, instruction pointer and the indexed control    *)
(* registers.  A panic is the result [panic |-> TRUE].                     *)
(***************************************************************************)
\* arch/arm/vpuc-d.rs (control block), arch/arm/vmm.rs, arch/arm/vcpu.rs
Backends == {"vpuc-d", "vmm", "vcpu"}
\* vpuc-d.rs lines 276-278: the indices the match arms name
CrFamily == 0 .. 2
Returned(st, val) == [panic |-> FALSE, st |-> st, val |-> val]
Panicked(st) == [panic |-> TRUE, st |-> st, val |-> 0]

stack_pointer(st) == st.sp
instr_pointer(st) == st.pc

set_stack_pointer_vpucd(st, sp) == [st EXCEPT !.sp = sp]
set_stack_pointer_vmm(st, sp) == [st EXCEPT !.sp = sp]
set_stack_pointer_vcpu(st, sp) == [st EXCEPT !.pc = sp]

cr_vpucd(st, cr_idx) ==
    IF cr_idx \in CrFamily THEN Returned(st, st.cr[cr_idx]) ELSE Panicked(st)
cr_vmm(st, cr_idx) == Returned(st, 0)

set_cr_vpucd(st, cr_idx, val) ==
    IF cr_idx \in CrFamily
    THEN Returned([st EXCEPT !.cr[cr_idx] = val], 0)
    ELSE Panicked(st)
set_cr_vmm(st, cr_idx, val) == Returned(st, 0)

\* The trait methods on a backend b.
set_stack_pointer(b, st, sp) ==
    CASE b = "vpuc-d" -> set_stack_pointer_vpucd(st, sp)
      [] b = "vmm" -> set_stack_pointer_vmm(st, sp)
      [] OTHER -> set_stack_pointer_vcpu(st, sp)
cr(b, st, cr_idx) ==
    IF b = "vpuc-d" THEN cr_vpucd(st, cr_idx) ELSE cr_vmm(st, cr_idx)
set_cr(b, st, cr_idx, val) ==
    IF b = "vpuc-d" THEN set_cr_vpucd(st, cr_idx, val)
    ELSE set_cr_vmm(st, cr_idx, val)

AccNone == [backend |-> "none"]
AccInit == acc = AccNone

(***************************************************************************)
(* The state machine: one virtual CPU alternating between the normal world *)
(* and the secure world of one enclave thread.                             *)
(***************************************************************************)
Machine == [vcpu |-> vcpu, ssa |-> ssa, xregs |-> xregs]

Cr4Vals == { {}, {CR4_OSFXSR}, {CR4_OSXSAVE}, {CR4_OSFXSR, CR4_OSXSAVE} }
\* XCR0 always has the x87 bit set.
Xcr0Vals == { {XCR0_FPU_MMX_STATE},
              {XCR0_FPU_MMX_STATE, XCR0_SSE_STATE},
              {XCR0_FPU_MMX_STATE, XCR0_SSE_STATE, XCR0_AVX_STATE} }
XfrmVals == { {XCR0_FPU_MMX_STATE},
              {XCR0_FPU_MMX_STATE, XCR0_SSE_STATE},
              {XCR0_FPU_MMX_STATE, XCR0_SSE_STATE, XCR0_AVX_STATE} }
EferVals == { {EFER_LONG_MODE_ENABLE, EFER_LONG_MODE_ACTIVE},
              {EFER_SYSTEM_CALL_EXTENSIONS, EFER_LONG_MODE_ENABLE,
               EFER_LONG_MODE_ACTIVE} }
\* EFER of a 64-bit kernel that uses SYSCALL.
EferLinux == {EFER_SYSTEM_CALL_EXTENSIONS, EFER_LONG_MODE_ENABLE,
              EFER_LONG_MODE_ACTIVE}

NoCall == [op |-> "none", err |-> "none"]
NoHist == [valid |-> FALSE]

\* The control-register state of the virtual CPU.
Ctrl(v) == load_enclave_thread_state(v)
\* The live state an asynchronous exit interrupts.
Live(v) == [regs |-> v.regs, rsp |-> v.rsp, rflags |-> v.rflags,
            rip |-> v.rip]

\* The SSA frame as the enclave builder leaves it: only the user stack and
\* frame pointers are meaningful.
InitSsa(ursp, urbp) ==
    [gpr |-> [regs |-> DefaultRegs, rsp |-> 0, rflags |-> {}, rip |-> 0,
              exit_info |-> NoExitInfo, fs_base |-> 0, gs_base |-> 0,
              ursp |-> ursp, urbp |-> urbp],
     misc |-> [exinfo |-> MiscSgx(0, {})],
     xsave |-> [bv |-> {}, comp |-> XInitRegs]]

\* The normal world as the kernel runs it, with the given CR4 and XCR0.
HostVcpu(v, cr4, xcr0) ==
    [v EXCEPT !.regs = DistinctRegs, !.rip = 1, !.rsp = 1,
              !.cr4 = cr4, !.xcr0 = xcr0, !.stores = 0]

\* RFLAGS of the normal-world caller: bit 1 always reads as set.
HostFlags == {RFLAGS_RESERVED1, RFLAGS_INTERRUPT_FLAG}
RflagsVals == { {RFLAGS_RESERVED1, RFLAGS_INTERRUPT_FLAG},
                {RFLAGS_CARRY_FLAG, RFLAGS_RESERVED1} }

InitGen(efers, features, users, flags) ==
    /\ \E efer \in efers, rflags \in flags :
         vcpu = [regs |-> DistinctRegs, rip |-> 1, rsp |-> 1,
                 rflags |-> rflags,
                 fs_base |-> 1, gs_base |-> 2, efer |-> efer,
                 xcr0 |-> {XCR0_FPU_MMX_STATE, XCR0_SSE_STATE, XCR0_AVX_STATE},
                 cr4 |-> {CR4_OSFXSR, CR4_OSXSAVE},
                 hv_page_table_root |-> 1, page_table_root |-> 2,
                 idtr_base |-> 1, idtr_limit |-> 2, is_enter |-> FALSE,
                 stores |-> 0]
    /\ \E u \in users : ssa = InitSsa(u, MaxVal - u)
    /\ xregs = [i \in Components |-> 1]
    /\ nws = load_enclave_thread_state(vcpu)
    /\ pc = "normal"
    /\ call = NoCall
    /\ last = NoCall
    /\ entered = NoHist
    /\ aexed = NoHist
    /\ cssa = 0
    /\ encl_xfrm = SECS_XFRM_TEMPLATE
    /\ enclave_interrupt \in features
    /\ ncalls = 0
    /\ FxInit
    /\ SecsInit
    /\ AccInit
    /\ ExInit
    /\ RngInit

InitWith(efers, features, users) ==
    InitGen(efers, features, users, {HostFlags})

Init == InitWith({EferLinux}, {FALSE}, Vals)

\* The normal-world kernel runs and may reprogram CR4 and XCR0.
HostRun ==
    /\ pc = "normal"
    /\ \E cr4 \in Cr4Vals, xcr0 \in Xcr0Vals :
         vcpu' = HostVcpu(vcpu, cr4, xcr0)
    /\ xregs' = [i \in Components |-> 1]
    /\ last' = NoCall
    /\ entered' = NoHist
    /\ UNCHANGED <<ssa, nws, pc, call, aexed, cssa, encl_xfrm,
                   enclave_interrupt, ncalls>>
    /\ UNCHANGED nonengine

\* Secure-world code runs: it changes the registers it can reach, which
\* are the general registers, stack and instruction pointer, the
\* interrupt flag and the extended components its XCR0 enables.
EnclaveRun ==
    /\ pc = "enclave"
    /\ \E s \in Vals :
         /\ vcpu' = [vcpu EXCEPT
                       !.regs = RegFile(s), !.rsp = s, !.rip = MaxVal - s,
                       !.stores = 0,
                       !.rflags = IF s % 2 = 0
                                  THEN vcpu.rflags \cup {RFLAGS_INTERRUPT_FLAG}
                                  ELSE vcpu.rflags \ {RFLAGS_INTERRUPT_FLAG}]
         /\ xregs' = [i \in Components |->
                         IF i \in vcpu.xcr0 THEN s + i ELSE xregs[i]]
    /\ last' = NoCall
    /\ entered' = NoHist
    /\ aexed' = NoHist
    /\ UNCHANGED <<ssa, nws, pc, call, cssa, encl_xfrm,
                   enclave_interrupt, ncalls>>
    /\ UNCHANGED nonengine

\* The enter hypercall: the caller captures the normal-world state and
\* calls enclave_enter.  The thread is entered with its current SSA index,
\* which is above zero while an asynchronous exit awaits its resume.
Enter ==
    /\ pc = "normal"
    /\ ncalls < MaxCalls
    /\ \E xfrm \in XfrmVals, ok \in BOOLEAN :
         LET a == [entry_ip |-> MaxVal, fs_base |-> 2, gs_base |-> 0,
                   xfrm |-> xfrm, cssa |-> cssa,
                   hv_page_table_root |-> 2, page_table_root |-> 0]
             r == enclave_enter(vcpu, a, enclave_interrupt, ok)
         IN  /\ vcpu' = r.vcpu
             /\ nws' = load_enclave_thread_state(vcpu)
             /\ pc' = CASE r.err = "Ok" -> "enclave"
                        [] r.err = "EINVAL" -> "normal"
                        [] OTHER -> "fatal"
             /\ encl_xfrm' = IF r.err = "Ok" THEN xfrm ELSE encl_xfrm
             /\ last' = [op |-> "enter", err |-> r.err, pre |-> Machine,
                         args |-> a]
             /\ entered' = IF r.err = "Ok"
                           THEN [valid |-> TRUE, ctrl |-> Ctrl(vcpu)]
                           ELSE NoHist
    /\ aexed' = NoHist
    /\ ncalls' = ncalls + 1
    /\ UNCHANGED <<ssa, xregs, call, cssa, enclave_interrupt>>
    /\ UNCHANGED nonengine

\* The exit hypercall.
Exit ==
    /\ pc = "enclave"
    /\ ncalls < MaxCalls
    /\ ncalls' = ncalls + 1
    /\ \E ok \in BOOLEAN :
         LET a == [exit_ip |-> 1, aep |-> MaxVal + 1,
                   normal_world_state |-> nws]
             r == enclave_exit(vcpu, a.exit_ip, a.aep, nws, ok)
         IN  /\ vcpu' = r.vcpu
             /\ pc' = IF r.err = "Ok" THEN "normal" ELSE "fatal"
             /\ last' = [op |-> "exit", err |-> r.err, pre |-> Machine,
                         args |-> a]
    /\ aexed' = NoHist
    /\ UNCHANGED <<ssa, xregs, nws, call, entered, cssa, encl_xfrm,
                   enclave_interrupt>>
    /\ UNCHANGED nonengine

\* A fault or interrupt arrives in the secure world: enclave_aex is called.
AexBegin ==
    /\ pc = "enclave"
    /\ cssa = 0
    /\ ncalls < MaxCalls
    /\ \E e \in AexExceptions :
         call' = [aex_excep |-> e, aep |-> MaxVal + 1, xfrm |-> encl_xfrm,
                  tcs_vaddr |-> MaxVal + 2, normal_world_state |-> nws,
                  step |-> 1]
    /\ pc' = "aex"
    /\ last' = [op |-> "aex", err |-> "pending", pre |-> Machine,
                args |-> call']
    /\ entered' = NoHist
    /\ aexed' = [valid |-> TRUE, live |-> Live(vcpu)]
    /\ ncalls' = ncalls + 1
    /\ UNCHANGED <<vcpu, ssa, xregs, nws, cssa, encl_xfrm,
                   enclave_interrupt>>
    /\ UNCHANGED nonengine

\* One step of the enclave_aex in progress.
AexStep ==
    /\ pc = "aex"
    /\ \E ok \in BOOLEAN :
       LET m1 == AexStepFn(AexOrder[call.step], Machine, call, ok)
           failed == AexReturnsAt(call.step, ok)
           done == failed \/ call.step = Len(AexOrder)
       IN  /\ vcpu' = m1.vcpu
           /\ ssa' = m1.ssa
           /\ xregs' = m1.xregs
           /\ call' = IF done THEN NoCall ELSE [call EXCEPT !.step = @ + 1]
           /\ pc' = IF failed THEN "fatal" ELSE IF done THEN "normal" ELSE "aex"
           /\ last' = IF done
                      THEN [last EXCEPT !.err = IF failed THEN "EIO" ELSE "Ok"]
                      ELSE last
           /\ cssa' = IF done /\ ~failed THEN cssa + 1 ELSE cssa
    /\ UNCHANGED <<nws, entered, aexed, encl_xfrm, enclave_interrupt, ncalls>>
    /\ UNCHANGED nonengine

\* The resume hypercall: the caller captures the normal-world state and
\* calls enclave_resume on the SSA of the interrupted thread.  A failed
\* validation returns at once.
Resume ==
    /\ pc = "normal"
    /\ cssa > 0
    /\ ncalls < MaxCalls
    /\ ncalls' = ncalls + 1
    /\ LET a == [xfrm |-> encl_xfrm, hv_page_table_root |-> 2,
                 page_table_root |-> 0, step |-> 1]
           err == ResValidate(Machine, a)
       IN  /\ nws' = load_enclave_thread_state(vcpu)
           /\ pc' = IF err = "Ok" THEN "resume" ELSE "normal"
           /\ call' = IF err = "Ok" THEN a ELSE NoCall
           /\ last' = [op |-> "resume",
                       err |-> IF err = "Ok" THEN "pending" ELSE err,
                       pre |-> Machine, args |-> a]
    /\ entered' = NoHist
    /\ UNCHANGED <<vcpu, ssa, xregs, cssa, aexed, encl_xfrm,
                   enclave_interrupt>>
    /\ UNCHANGED nonengine

\* One step of the enclave_resume in progress.
ResumeStep ==
    /\ pc = "resume"
    /\ \E ok \in BOOLEAN :
       LET m1 == ResStepFn(ResumeOrder[call.step], Machine, call, ok)
           failed == ResReturnsAt(call.step, ok)
           done == failed \/ call.step = Len(ResumeOrder)
       IN  /\ vcpu' = m1.vcpu
           /\ ssa' = m1.ssa
           /\ xregs' = m1.xregs
           /\ call' = IF done THEN NoCall ELSE [call EXCEPT !.step = @ + 1]
           /\ pc' = IF failed THEN "fatal"
                    ELSE IF done THEN "enclave" ELSE "resume"
           /\ last' = IF done
                      THEN [last EXCEPT !.err = IF failed THEN "EIO" ELSE "Ok"]
                      ELSE last
           /\ cssa' = IF done /\ ~failed THEN cssa - 1 ELSE cssa
    /\ UNCHANGED <<nws, entered, aexed, encl_xfrm, enclave_interrupt, ncalls>>
    /\ UNCHANGED nonengine

\* Between an asynchronous exit and the resume, other code of the enclave
\* (the SSA is enclave memory) overwrites the XSTATE_BV header of the saved
\* extended-state image with a component the enclave's XFRM does not have.
SsaWrite ==
    /\ pc = "normal"
    /\ cssa > 0
    /\ ssa.xsave.bv \subseteq encl_xfrm
    /\ \E i \in Components \ encl_xfrm :
         ssa' = [ssa EXCEPT !.xsave.bv = @ \cup {i}]
    /\ last' = NoCall
    /\ aexed' = NoHist
    /\ UNCHANGED <<vcpu, xregs, nws, pc, call, entered, cssa, encl_xfrm,
                   enclave_interrupt, ncalls>>
    /\ UNCHANGED nonengine

Next ==
    \/ HostRun
    \/ EnclaveRun
    \/ Enter
    \/ Exit
    \/ AexBegin
    \/ AexStep
    \/ Resume
    \/ ResumeStep
    \/ SsaWrite

Spec == Init /\ [][Next]_vars

\* The same machine started with either setting of EFER.SCE.
InitEfer == InitWith(EferVals, {FALSE}, {0})

SpecEfer == InitEfer /\ [][Next]_vars

\* The same machine built with or without the enclave_interrupt feature,
\* called with interrupts enabled or disabled.
InitFlags == InitGen({EferLinux}, BOOLEAN, {0}, RflagsVals)

SpecFlags == InitFlags /\ [][Next]_vars

(***************************************************************************)
(* Fault classification on several cores, concurrent with a mutation of    *)
(* the shared-memory range.                                                *)
(***************************************************************************)
\* line 510: self.shmem().read().contains(&fault_gvaddr); the read guard
\* is a temporary of the condition and is dropped when it is evaluated.
FxShmemSteps_NoLock == <<"contains">>

FxShmemSteps_KeepLock == <<"read_lock", "contains">>

FxShmemSteps == <<"read_lock", "contains", "read_unlock">>

\* A core takes a fault of the enclave and calls fixup_exception; whatever
\* does not need the shared-memory range is decided at once.
FxCall(c) ==
    /\ fx[c].pc = "idle"
    /\ \E vec \in FaultVectors, ec \in OptErrCodes, ga \in OptAddrs :
         LET reads == ReadsShmem(vec, ec, ga, InElrange(ga))
             base == [vec |-> vec, error_code |-> ec, fault_gvaddr |-> ga,
                      legal |-> IF ga.some
                                THEN {Contains(r, ga.val) : r \in CommittedRanges}
                                ELSE {FALSE},
                      obs |-> FALSE]
         IN  fx' = [fx EXCEPT ![c] =
                IF reads
                THEN base @@ [pc |-> "shmem", step |-> 1, res |-> NoResult]
                ELSE base @@ [pc |-> "done", step |-> 0,
                              res |-> fixup_exception(vec, ec, ga,
                                                      InElrange(ga), FALSE)]]
    /\ UNCHANGED <<shmem, rwlock, wr>>
    /\ UNCHANGED nonfixup

\* One step of the shared-memory lookup; after the last one the call
\* returns its result.
FxShmemStep(c) ==
    /\ fx[c].pc = "shmem"
    /\ LET name == FxShmemSteps[fx[c].step]
           f == fx[c]
           obs1 == IF name = "contains"
                   THEN Contains(shmem, f.fault_gvaddr.val) ELSE f.obs
           legal1 == IF name = "contains"
                     THEN {Contains(r, f.fault_gvaddr.val) : r \in CommittedRanges}
                     ELSE f.legal
           last_step == f.step = Len(FxShmemSteps)
       IN  /\ name = "read_lock" => ~rwlock.writer
           /\ rwlock' = CASE name = "read_lock" ->
                               [rwlock EXCEPT !.readers = @ \cup {c}]
                          [] name = "read_unlock" ->
                               [rwlock EXCEPT !.readers = @ \ {c}]
                          [] OTHER -> rwlock
           /\ fx' = [fx EXCEPT ![c] =
                  [f EXCEPT !.obs = obs1, !.legal = legal1,
                            !.step = IF last_step THEN 0 ELSE @ + 1,
                            !.pc = IF last_step THEN "done" ELSE "shmem",
                            !.res = IF last_step
                                    THEN fixup_exception(f.vec, f.error_code,
                                             f.fault_gvaddr,
                                             InElrange(f.fault_gvaddr), obs1)
                                    ELSE NoResult]]
    /\ UNCHANGED <<shmem, wr>>
    /\ UNCHANGED nonfixup

\* The caller consumes the result.
FxReturn(c) ==
    /\ fx[c].pc = "done"
    /\ fx' = [fx EXCEPT ![c] = FxIdle]
    /\ UNCHANGED <<shmem, rwlock, wr>>
    /\ UNCHANGED nonfixup

\* The mutator takes the write side of the lock to move the range.
WLock ==
    /\ wr.pc = "idle"
    /\ ~rwlock.writer
    /\ rwlock.readers = {}
    /\ \E new \in ShmemRanges \ {shmem} :
         wr' = [pc |-> "locked", old |-> shmem, new |-> new]
    /\ rwlock' = [rwlock EXCEPT !.writer = TRUE]
    /\ UNCHANGED <<shmem, fx>>
    /\ UNCHANGED nonfixup

\* It writes the two words of the descriptor one after the other.
WWrite ==
    /\ wr.pc \in {"locked", "partial"}
    /\ IF wr.pc = "locked"
       THEN /\ \E f \in {"start", "end"} :
                 shmem' = [shmem EXCEPT ![f] = wr.new[f]]
            /\ wr' = [wr EXCEPT !.pc = "partial"]
       ELSE /\ shmem' = wr.new
            /\ wr' = [wr EXCEPT !.pc = "written"]
    /\ UNCHANGED <<rwlock, fx>>
    /\ UNCHANGED nonfixup

WUnlock ==
    /\ wr.pc = "written"
    /\ rwlock' = [rwlock EXCEPT !.writer = FALSE]
    /\ wr' = WrIdle
    /\ UNCHANGED <<shmem, fx>>
    /\ UNCHANGED nonfixup

FxNext ==
    \/ \E c \in Cores : FxCall(c)
    \/ \E c \in Cores : FxShmemStep(c)
    \/ \E c \in Cores : FxReturn(c)
    \/ WLock
    \/ WWrite
    \/ WUnlock

FxSpecInit == InitWith({EferLinux}, {FALSE}, {0})

FixupSpec == FxSpecInit /\ [][FxNext]_vars

(***************************************************************************)
(* Descriptor validation: SgxSecs::validate applied to every descriptor    *)
(* and CPUID view of the input sets.                                       *)
(***************************************************************************)
SecsValidate ==
    /\ secs.pc = "idle"
    /\ \E s \in SecsInputs, cpuid \in CpuidViews :
         secs' = [pc |-> "done", secs |-> s, cpuid |-> cpuid,
                  res |-> SgxSecs_validate(s, cpuid)]
    /\ UNCHANGED nonsecs

\* The caller consumes the result.
SecsReturn ==
    /\ secs.pc = "done"
    /\ secs' = SecsIdle
    /\ UNCHANGED nonsecs

SecsNext ==
    \/ SecsValidate
    \/ SecsReturn

SecsSpecInit == InitWith({EferLinux}, {FALSE}, {0})

SecsSpec == SecsSpecInit /\ [][SecsNext]_vars

(***************************************************************************)
(* Register access: a virtual CPU of one backend, the guest running on it  *)
(* and the hypervisor calling the accessors.                               *)
(***************************************************************************)
\* Vcpu::new
AccNew ==
    /\ acc = AccNone
    /\ \E b \in Backends :
         acc' = [backend |-> b, halted |-> FALSE,
                 st |-> [x |-> 0, sp |-> 1, pc |-> MaxVal,
                         cr |-> [i \in CrFamily |-> 0]],
                 last |-> NoCall]
    /\ UNCHANGED nonacc

\* The guest runs: general register and instruction pointer move on.
AccGuestRun ==
    /\ acc # AccNone
    /\ ~acc.halted
    /\ \E s \in Vals :
         acc' = [acc EXCEPT !.st.x = s, !.st.pc = MaxVal - s,
                            !.last = NoCall]
    /\ UNCHANGED nonacc

AccSetStackPointer ==
    /\ acc # AccNone
    /\ ~acc.halted
    /\ \E sp \in Vals :
         acc' = [acc EXCEPT
                   !.st = set_stack_pointer(acc.backend, acc.st, sp),
                   !.last = [op |-> "set_stack_pointer", err |-> "none",
                             val |-> sp, pre |-> acc.st]]
    /\ UNCHANGED nonacc

\* The control-register accessors exist in the backends that implement
\* the whole trait.
AccCr ==
    /\ acc # AccNone
    /\ ~acc.halted
    /\ acc.backend \in {"vpuc-d", "vmm"}
    /\ \E i \in 0 .. Cardinality(CrFamily) :
         LET r == cr(acc.backend, acc.st, i)
         IN  acc' = [acc EXCEPT
                       !.halted = r.panic,
                       !.last = [op |-> "cr", err |-> "none", idx |-> i,
                                 res |-> r, pre |-> acc.st]]
    /\ UNCHANGED nonacc

AccSetCr ==
    /\ acc # AccNone
    /\ ~acc.halted
    /\ acc.backend \in {"vpuc-d", "vmm"}
    /\ \E i \in 0 .. Cardinality(CrFamily), v \in Vals :
         LET r == set_cr(acc.backend, acc.st, i, v)
         IN  acc' = [acc EXCEPT
                       !.st = r.st,
                       !.halted = r.panic,
                       !.last = [op |-> "set_cr", err |-> "none", idx |-> i,
                                 val |-> v, res |-> r, pre |-> acc.st]]
    /\ UNCHANGED nonacc

AccNext ==
    \/ AccNew
    \/ AccGuestRun
    \/ AccSetStackPointer
    \/ AccCr
    \/ AccSetCr

AccSpecInit == InitWith({EferLinux}, {FALSE}, {0})

AccSpec == AccSpecInit /\ [][AccNext]_vars

(***************************************************************************)
(* The constructors of EnclaveExceptionInfo applied to every input, in the *)
(* x86_64 and in the arm source.                                           *)
(***************************************************************************)
ExInvalidOpcode ==
    /\ \E arm \in BOOLEAN, m \in BOOLEAN :
         ex' = [ctor |-> "invalid_opcode", arm |-> arm, in_encl |-> m,
                res |-> IF arm THEN arm_invalid_opcode(m)
                        ELSE invalid_opcode(m)]
    /\ UNCHANGED nonex

ExGeneralProtection ==
    /\ \E arm \in BOOLEAN, ec \in ErrCodes, st \in CpuStates :
         ex' = [ctor |-> "general_protection", arm |-> arm,
                in_encl |-> (st = "EnclaveRunning"), error_code |-> ec,
                res |-> IF arm THEN arm_general_protection(ec, st)
                        ELSE general_protection(ec, st)]
    /\ UNCHANGED nonex

ExPageFaultInEncl ==
    /\ \E arm \in BOOLEAN, el \in ErrCodes, em \in ErrCodes,
          a \in 0 .. MaxAddr :
         ex' = [ctor |-> "page_fault_in_encl", arm |-> arm,
                errcd_for_linux |-> el, errcd_for_misc |-> em,
                fault_vaddr |-> a,
                res |-> IF arm THEN arm_page_fault_in_encl(el, em, a)
                        ELSE page_fault_in_encl(el, em, a)]
    /\ UNCHANGED nonex

ExPageFaultOutEncl ==
    /\ \E arm \in BOOLEAN, ec \in ErrCodes, a \in 0 .. MaxAddr :
         ex' = [ctor |-> "page_fault_out_encl", arm |-> arm,
                error_code |-> ec, fault_vaddr |-> a,
                res |-> IF arm THEN arm_page_fault_out_encl(ec, a)
                        ELSE page_fault_out_encl(ec, a)]
    /\ UNCHANGED nonex

ExNext ==
    \/ ExInvalidOpcode
    \/ ExGeneralProtection
    \/ ExPageFaultInEncl
    \/ ExPageFaultOutEncl

ExSpec == AccSpecInit /\ [][ExNext]_vars

(***************************************************************************)
(* Rng::fill_bytes, one pass of getrandom's loop per step.                 *)
(***************************************************************************)
\* fill_bytes(buf) is called with a zeroed buffer of n bytes
RngFillBytes(n) ==
    /\ rng.pc = "idle"
    /\ rng' = [RngIdle EXCEPT !.pc = "loop", !.buf = [i \in 1 .. n |-> 0]]
    /\ UNCHANGED nonrng

\* do_rdrand reports failure
RngRdrandFail ==
    /\ rng.pc = "loop"
    /\ rng.off < Len(rng.buf)
    /\ rng' = getrandom_body(rng, FALSE, 0)
    /\ UNCHANGED nonrng

\* do_rdrand delivers the word w
RngRdrandWord(w) ==
    /\ rng.pc = "loop"
    /\ rng.off < Len(rng.buf)
    /\ rng' = getrandom_body(rng, TRUE, w)
    /\ UNCHANGED nonrng

\* to_fill is empty: getrandom returns
RngReturn ==
    /\ rng.pc = "loop"
    /\ rng.off >= Len(rng.buf)
    /\ rng' = [rng EXCEPT !.pc = "done"]
    /\ UNCHANGED nonrng

\* the caller goes on to another buffer
RngAgain ==
    /\ rng.pc = "done"
    /\ rng' = RngIdle
    /\ UNCHANGED nonrng

RngNext ==
    \/ \E n \in 0 .. MaxLen : RngFillBytes(n)
    \/ RngRdrandFail
    \/ \E w \in RandWords : RngRdrandWord(w)
    \/ RngReturn
    \/ RngAgain

RngSpec == AccSpecInit /\ [][RngNext]_vars

(***************************************************************************)
(* Properties.                                                             *)
(***************************************************************************)
\* enclave_aex has just returned Ok.
AexDone == last.op = "aex" /\ last.err = "Ok"
\* enclave_aex is in progress or has just returned.
InAex == last.op = "aex"

\* C1: two asynchronous exits that differ only in the live secure-world
\* general registers and stack pointer (same arguments, same SSA) leave the
\* same general-register block and the same stack pointer: whatever the
\* secure world held, the host handler sees the same registers.
C1_AexHidesSecureRegisters ==
    AexDone =>
        \A s \in Vals, sp \in Vals :
            LET m2 == [last.pre EXCEPT !.vcpu.regs = RegFile(s),
                                       !.vcpu.rsp = sp]
                r2 == enclave_aex(m2, last.args, TRUE)
            IN  /\ r2.err = "Ok"
                /\ r2.m.vcpu.regs = vcpu.regs
                /\ r2.m.vcpu.rsp = vcpu.rsp

C1_Witness ==
    /\ AexDone
    /\ last.pre.vcpu.regs = UniformRegs(1)
    /\ last.pre.vcpu.rsp # vcpu.rsp

\* C2 as claimed: after enclave_aex the register block is all zero except
\* rax (EnclaveResume), rbx (tcs_vaddr) and rcx (aep).
C2_Original_OnlyThreeRegisters ==
    AexDone =>
        vcpu.regs = [DefaultRegs EXCEPT !["rax"] = EnclaveResume,
                                        !["rbx"] = last.args.tcs_vaddr,
                                        !["rcx"] = last.args.aep]

\* C2 amended: after enclave_aex the register block is all zero except rax
\* (EnclaveResume), rbx (tcs_vaddr), rcx (aep) and rbp, which holds the
\* user frame pointer urbp of the SSA's general-register record.
C2_AexHandOffRegisters ==
    AexDone =>
        /\ vcpu.regs["rax"] = EnclaveResume
        /\ vcpu.regs["rbx"] = last.args.tcs_vaddr
        /\ vcpu.regs["rcx"] = last.args.aep
        /\ vcpu.regs["rbp"] = last.pre.ssa.gpr.urbp
        /\ \A r \in RegNames \ {"rax", "rbx", "rcx", "rbp"} : vcpu.regs[r] = 0

C2_Witness ==
    /\ AexDone
    /\ last.pre.ssa.gpr.urbp # 0
    /\ \A r \in RegNames : last.pre.vcpu.regs[r] # 0

\* C3: a successful enclave_resume on the SSA of the preceding enclave_aex,
\* with the same xfrm, brings back the general registers, stack pointer,
\* flags and instruction pointer that were live when enclave_aex was called.
C3_AexResumeRoundTrip ==
    (last.op = "resume" /\ last.err = "Ok" /\ aexed.valid) =>
        Live(vcpu) = aexed.live

C3_Witness ==
    /\ last.op = "resume" /\ last.err = "Ok" /\ aexed.valid
    /\ aexed.live.regs = DistinctRegs
    /\ Live(last.pre.vcpu) # aexed.live

\* C4: enclave_enter followed at once by enclave_exit with the snapshot
\* taken before the enter leaves the control-register state (flags, base
\* registers, EFER, XCR0, page-table roots, IDTR) as it was before the enter.
C4_EnterExitRoundTrip ==
    (last.op = "exit" /\ last.err = "Ok" /\ entered.valid) =>
        Ctrl(vcpu) = entered.ctrl

C4_Witness ==
    /\ last.op = "exit" /\ last.err = "Ok" /\ entered.valid
    /\ Ctrl(last.pre.vcpu) # entered.ctrl
    /\ last.pre.vcpu.xcr0 # entered.ctrl.xcr0

\* C5: with CR4.OSXSAVE set and xfrm not a subset of XCR0, enclave_enter
\* and enclave_resume return EINVAL and change nothing: general registers,
\* stack pointer, stored thread state, SSA and extended registers stay.
C5_Precondition ==
    /\ last.op \in {"enter", "resume"}
    /\ CR4_OSXSAVE \in last.pre.vcpu.cr4
    /\ ~(last.args.xfrm \subseteq last.pre.vcpu.xcr0)

C5_InvalidXfrmRejectedUnchanged ==
    C5_Precondition => (last.err = "EINVAL" /\ Machine = last.pre)

C5_Witness ==
    /\ C5_Precondition
    /\ last.op = "resume"
    /\ CR4_OSFXSR \in last.pre.vcpu.cr4

\* C6: validate_xfrm accepts exactly when CR4.OSFXSR is set and either
\* CR4.OSXSAVE is set and xfrm & xcr0 = xfrm, or CR4.OSXSAVE is clear and
\* xfrm = 0b11; everything else is EINVAL.  Checked on every reachable
\* virtual CPU for every xfrm, and on the outcome of every enclave_enter.
C6_Accepts(cr4, xcr0, xfrm) ==
    /\ CR4_OSFXSR \in cr4
    /\ \/ (CR4_OSXSAVE \in cr4 /\ (xfrm \cap xcr0) = xfrm)
       \/ (CR4_OSXSAVE \notin cr4 /\ xfrm = {0, 1})

C6_ValidateXfrmIff ==
    /\ \A xfrm \in XfrmVals :
         validate_xfrm(vcpu, xfrm) =
            IF C6_Accepts(vcpu.cr4, vcpu.xcr0, xfrm) THEN "Ok" ELSE "EINVAL"
    /\ last.op = "enter" =>
         ((last.err = "EINVAL") <=>
            ~C6_Accepts(last.pre.vcpu.cr4, last.pre.vcpu.xcr0, last.args.xfrm))

C6_Witness ==
    /\ last.op = "enter" /\ last.err = "Ok"
    /\ CR4_OSXSAVE \notin last.pre.vcpu.cr4
    /\ last.pre.vcpu.xcr0 = {XCR0_FPU_MMX_STATE, XCR0_SSE_STATE, XCR0_AVX_STATE}

\* C7 as claimed: the xcr0 that enclave_enter or enclave_resume stores is a
\* subset of the XCR0 the virtual CPU reported when it was stored, in every
\* branch of the validation.
C7_Stored == last.op \in {"enter", "resume"} /\ last.err = "Ok"

C7_Original_StoredMaskSubsetOfXcr0 ==
    C7_Stored => vcpu.xcr0 \subseteq last.pre.vcpu.xcr0

\* C7 amended: the stored xcr0 is the validated xfrm; it is a subset of the
\* virtual CPU's XCR0 when CR4.OSXSAVE is set, and it is exactly the legacy
\* template 0b11 when CR4.OSXSAVE is clear (whatever XCR0 then holds).
C7_StoredMaskValidated ==
    C7_Stored =>
        /\ vcpu.xcr0 = last.args.xfrm
        /\ CR4_OSXSAVE \in last.pre.vcpu.cr4 =>
               vcpu.xcr0 \subseteq last.pre.vcpu.xcr0
        /\ CR4_OSXSAVE \notin last.pre.vcpu.cr4 =>
               vcpu.xcr0 = SECS_XFRM_TEMPLATE

C7_Witness ==
    /\ C7_Stored
    /\ CR4_OSXSAVE \notin last.pre.vcpu.cr4
    /\ ~(vcpu.xcr0 \subseteq last.pre.vcpu.xcr0)

\* C8: when enclave_aex has returned, every live extended component named
\* by xfrm holds its initial value and the SSA's extended-state image holds
\* the value the component had at fault time.
C8_AexExtendedStateSavedAndReset ==
    AexDone =>
        \A i \in last.args.xfrm :
            /\ xregs[i] = XInit
            /\ ImageValue(ssa.xsave, i) = last.pre.xregs[i]

C8_Witness ==
    /\ AexDone
    /\ XCR0_AVX_STATE \in last.args.xfrm
    /\ \A i \in last.args.xfrm : last.pre.xregs[i] # XInit

\* C9: the steps of enclave_aex are ordered.  Once the normal-world thread
\* state is stored, the SSA already holds the fault-time registers, the
\* exit-reason tag, the misc detail (if any) and the extended state, and
\* the live extended state is already reset; and as long as that store has
\* not been made the general registers and stack pointer are not scrubbed.
C9_BeforeStoreDone ==
    /\ ssa.gpr.regs = last.pre.vcpu.regs
    /\ ssa.gpr.rsp = last.pre.vcpu.rsp
    /\ ssa.gpr.rflags = last.pre.vcpu.rflags
    /\ ssa.gpr.rip = last.pre.vcpu.rip
    /\ ssa.gpr.fs_base = last.pre.vcpu.fs_base
    /\ ssa.gpr.gs_base = last.pre.vcpu.gs_base
    /\ ssa.gpr.exit_info = SgxExitInfo_from_vector(last.args.aex_excep.vec)
    /\ last.args.aex_excep.misc.some =>
           ssa.misc.exinfo = last.args.aex_excep.misc.val
    /\ \A i \in last.args.xfrm :
           /\ ImageValue(ssa.xsave, i) = last.pre.xregs[i]
           /\ xregs[i] = XInit

C9_AexStepOrder ==
    InAex =>
        /\ ~vcpu.is_enter => C9_BeforeStoreDone
        /\ vcpu.is_enter => (vcpu.regs = last.pre.vcpu.regs
                             /\ vcpu.rsp = last.pre.vcpu.rsp)

C9_Witness ==
    /\ pc = "aex"
    /\ AexOrder[call.step] = "scrub"
    /\ ~vcpu.is_enter
    /\ vcpu.xcr0 # last.pre.vcpu.xcr0
    /\ vcpu.regs = UniformRegs(MaxVal)

\* C10: after enclave_aex the live stack pointer is the user stack pointer
\* ursp of the SSA, whatever the stack pointer was at fault time; the
\* fault-time stack pointer is kept only in the SSA.
C10_AexStackPointerIsUrsp ==
    AexDone =>
        /\ vcpu.rsp = ssa.gpr.ursp
        /\ ssa.gpr.ursp = last.pre.ssa.gpr.ursp
        /\ ssa.gpr.rsp = last.pre.vcpu.rsp

C10_Witness ==
    /\ AexDone
    /\ last.pre.vcpu.rsp # last.pre.ssa.gpr.ursp
    /\ last.pre.vcpu.rsp = MaxVal

(***************************************************************************)
(* Properties of fixup_exception, stated on the calls that have returned.  *)
(***************************************************************************)
FxDone(c) == fx[c].pc = "done"
\* A page fault that comes with an error code and a fault address.
FxPageFault(c) ==
    /\ FxDone(c)
    /\ fx[c].vec = PageFault
    /\ fx[c].error_code.some
    /\ fx[c].fault_gvaddr.some
FxAddr(c) == fx[c].fault_gvaddr.val
FxCode(c) == fx[c].error_code.val
FxInfo(c) == fx[c].res.val.val
FxReturnsInfo(c) == fx[c].res.kind = "Ok" /\ fx[c].res.val.some

\* The fault address is outside the null page, the private range and the
\* shared-memory range.
FxIllegalAccess(c) ==
    /\ FxPageFault(c)
    /\ FxAddr(c) >= PAGE_SIZE
    /\ ~Contains(ELRANGE, FxAddr(c))
    /\ ~fx[c].obs

FxSharedAccess(c) ==
    /\ FxPageFault(c)
    /\ FxAddr(c) # 0
    /\ ~Contains(ELRANGE, FxAddr(c))
    /\ fx[c].obs

C12_SharedMemoryFetchFlag ==
    \A c \in Cores : FxSharedAccess(c) =>
        /\ FxReturnsInfo(c)
        /\ FxInfo(c).aex_excep.some
        /\ FxInfo(c).aex_excep.val.vec = PageFault
        /\ FxInfo(c).aex_excep.val.misc.val.errcd =
               FxCode(c) \cup {SHARED_MEM_FETCH}
        /\ FxInfo(c).linux_info.error_code = Some(FxCode(c))

C12_Witness ==
    \E c \in Cores :
        /\ FxSharedAccess(c)
        /\ FxCode(c) # {}
        /\ Contains(shmem, FxAddr(c))
        /\ shmem = [start |-> 0, end |-> 4]

\* C13: for a page fault at address 0 the normal-world and the secure-world
\* error code both equal the input error code, for every input error code
\* and whatever the ranges say about the address.
C13_NullPageFaultMatchingCodes ==
    \A c \in Cores : (FxPageFault(c) /\ FxAddr(c) = 0) =>
        /\ FxReturnsInfo(c)
        /\ FxInfo(c).linux_info.error_code = Some(FxCode(c))
        /\ FxInfo(c).aex_excep.some
        /\ FxInfo(c).aex_excep.val.misc.val.errcd = FxCode(c)
        /\ \A in_el \in BOOLEAN, in_sh \in BOOLEAN :
               fixup_exception(fx[c].vec, fx[c].error_code,
                               fx[c].fault_gvaddr, in_el, in_sh) = fx[c].res

C13_Witness ==
    \E c \in Cores :
        /\ FxPageFault(c)
        /\ FxAddr(c) = 0
        /\ FxCode(c) = {PF_PROTECTION_VIOLATION, PF_USER_MODE, 15}

\* C14: for every vector other than page fault (a general-protection fault
\* coming with its error code) the result is a pass-through: the
\* normal-world view has the vector, the input error code and no fault
\* address; the secure-world view is present with the same vector, and has
\* misc detail (address 0, the error code) exactly for general protection.
FxPassThrough(c) ==
    /\ FxDone(c)
    /\ fx[c].vec # PageFault
    /\ fx[c].vec = GeneralProtectionFault => fx[c].error_code.some

C14_NonPageFaultPassThrough ==
    \A c \in Cores : FxPassThrough(c) =>
        /\ FxReturnsInfo(c)
        /\ FxInfo(c).linux_info.exception_type = fx[c].vec
        /\ FxInfo(c).linux_info.error_code = fx[c].error_code
        /\ FxInfo(c).linux_info.cr2 = None
        /\ FxInfo(c).aex_excep.some
        /\ FxInfo(c).aex_excep.val.vec = fx[c].vec
        /\ IF fx[c].vec = GeneralProtectionFault
           THEN FxInfo(c).aex_excep.val.misc = Some(MiscSgx(0, FxCode(c)))
           ELSE FxInfo(c).aex_excep.val.misc = None

C14_Witness ==
    \E c, d \in Cores :
        /\ FxPassThrough(c) /\ FxPassThrough(d)
        /\ fx[c].vec = GeneralProtectionFault /\ FxCode(c) = {1, 4}
        /\ fx[d].vec = InvalidOpcode /\ fx[d].error_code.some
        /\ fx[d].fault_gvaddr.some

\* A page fault without fault address or without error code, or a
\* general-protection fault without error code.
FxMissingInput(c) ==
    /\ FxDone(c)
    /\ \/ fx[c].vec = PageFault
          /\ (~fx[c].fault_gvaddr.some \/ ~fx[c].error_code.some)
       \/ fx[c].vec = GeneralProtectionFault /\ ~fx[c].error_code.some

FxSameInputs(c, d) ==
    /\ fx[c].vec = fx[d].vec
    /\ fx[c].error_code = fx[d].error_code
    /\ fx[c].fault_gvaddr = fx[d].fault_gvaddr
    /\ fx[c].legal = fx[d].legal

C16_OneOutcome ==
    \A c \in Cores : FxDone(c) =>
        \/ fx[c].res = HvErr("EINVAL")
        \/ /\ FxReturnsInfo(c)
           /\ FxInfo(c).linux_info.exception_type = fx[c].vec

C16_EqualInputsEqualOutcomes ==
    \A c, d \in Cores :
        (FxDone(c) /\ FxDone(d) /\ FxSameInputs(c, d)) =>
            fx[c].res = fx[d].res

C17_ConcurrentClassification ==
    /\ rwlock.writer => wr.pc # "idle"
    /\ ~(rwlock.writer /\ rwlock.readers # {})
    /\ \A c \in Cores :
         /\ (fx[c].pc = "shmem" /\ FxShmemSteps[fx[c].step] = "read_lock"
             /\ ~rwlock.writer) => ENABLED FxShmemStep(c)
         /\ (fx[c].pc = "shmem" /\ FxShmemSteps[fx[c].step] = "contains")
                => c \in rwlock.readers
         /\ (FxDone(c) /\ ReadsShmem(fx[c].vec, fx[c].error_code,
                                      fx[c].fault_gvaddr,
                                      InElrange(fx[c].fault_gvaddr)))
                => fx[c].obs \in fx[c].legal
         /\ fx[c].pc \in {"idle", "done"} => c \notin rwlock.readers

C17_Witness ==
    /\ rwlock.readers = Cores
    /\ \A c \in Cores : FxShmemSteps[fx[c].step] = "contains"
    /\ fx[1].fault_gvaddr # fx[2].fault_gvaddr

\* C18: if validate_xfrm or the validation of the SSA's saved extended-state
\* image fails, enclave_resume returns the error before writing anything:
\* stored thread state, live extended registers, general registers and
\* stack pointer are as they were at the call.
C18_ValidationFails ==
    /\ last.op = "resume"
    /\ \/ validate_xfrm(last.pre.vcpu, last.args.xfrm) # "Ok"
       \/ ~XsaveRegion_validate_at_resume(last.pre.ssa.xsave, last.args.xfrm)

C18_ResumeValidationFailureWritesNothing ==
    C18_ValidationFails =>
        /\ last.err = "EINVAL"
        /\ pc = "normal"
        /\ vcpu = last.pre.vcpu
        /\ xregs = last.pre.xregs
        /\ ssa = last.pre.ssa

C18_Witness ==
    /\ C18_ValidationFails
    /\ validate_xfrm(last.pre.vcpu, last.args.xfrm) = "Ok"
    /\ last.pre.xregs # [i \in Components |-> ImageValue(ssa.xsave, i)]

\* C19: enclave_resume writes in the order thread-state store, restore of
\* the live extended registers, copy of the general registers and stack
\* pointer.  Until the store is made nothing else is written (so a failed
\* store leaves extended and general registers alone), and the general
\* registers and stack pointer change only once the extended registers of
\* xfrm hold the SSA image.
C19_InResume == last.op = "resume" /\ last.err # "EINVAL"

C19_ResumeStepOrder ==
    C19_InResume =>
        /\ ~vcpu.is_enter =>
               /\ xregs = last.pre.xregs
               /\ vcpu.regs = last.pre.vcpu.regs
               /\ vcpu.rsp = last.pre.vcpu.rsp
        /\ (vcpu.regs # last.pre.vcpu.regs \/ vcpu.rsp # last.pre.vcpu.rsp) =>
               \A i \in last.args.xfrm : xregs[i] = ImageValue(ssa.xsave, i)
        /\ last.err = "EIO" =>
               (xregs = last.pre.xregs /\ vcpu.regs = last.pre.vcpu.regs
                /\ vcpu.rsp = last.pre.vcpu.rsp)
        /\ last.err = "Ok" =>
               /\ vcpu.is_enter
               /\ \A i \in last.args.xfrm : xregs[i] = ImageValue(ssa.xsave, i)
               /\ vcpu.regs = ssa.gpr.regs
               /\ vcpu.rsp = ssa.gpr.rsp

C19_Witness ==
    /\ pc = "resume"
    /\ ResumeOrder[call.step] = "regs"
    /\ vcpu.is_enter
    /\ xregs # last.pre.xregs
    /\ vcpu.regs # ssa.gpr.regs
    /\ vcpu.xcr0 # last.pre.vcpu.xcr0

\* C20 as claimed: for every live EFER, also one with the system-call-enable
\* bit already clear, the EFER that enclave_enter and enclave_resume record
\* is the live EFER with that bit cleared and every other bit unchanged.
C20_EferOnlySceCleared ==
    (last.op \in {"enter", "resume"} /\ last.err = "Ok") =>
        vcpu.efer = last.pre.vcpu.efer \ {EFER_SYSTEM_CALL_EXTENSIONS}

\* enclave_enter has just returned Ok.
EnterDone == last.op = "enter" /\ last.err = "Ok"

\* C21: the flags enclave_enter records for the secure world are the flags
\* live at the call with the interrupt-enable bit forced to the build-time
\* policy (set exactly when the enclave_interrupt feature is built in) and
\* every other bit as it was.
C21_EnterFlagsForceInterruptPolicy ==
    EnterDone =>
        \A b \in 0 .. WordBits - 1 :
            b \in vcpu.rflags <=>
                IF b = RFLAGS_INTERRUPT_FLAG THEN enclave_interrupt
                ELSE b \in last.pre.vcpu.rflags

C21_Witness ==
    /\ EnterDone
    /\ enclave_interrupt
    /\ RFLAGS_INTERRUPT_FLAG \notin last.pre.vcpu.rflags
    /\ RFLAGS_CARRY_FLAG \in last.pre.vcpu.rflags
    /\ RFLAGS_INTERRUPT_FLAG \in vcpu.rflags

\* C22: after a successful enclave_enter rax holds the cssa argument, rcx
\* holds the instruction pointer the virtual CPU had at the call (not the
\* entry point), and every other general register and the stack pointer are
\* as they were.
C22_EnterRaxRcx ==
    EnterDone =>
        /\ vcpu.regs["rax"] = last.args.cssa
        /\ vcpu.regs["rcx"] = last.pre.vcpu.rip
        /\ \A r \in RegNames \ {"rax", "rcx"} :
               vcpu.regs[r] = last.pre.vcpu.regs[r]
        /\ vcpu.rsp = last.pre.vcpu.rsp

C22_Witness ==
    /\ EnterDone
    /\ last.args.cssa > 0
    /\ last.pre.vcpu.rip # last.args.entry_ip
    /\ last.pre.vcpu.regs["rax"] # last.args.cssa
    /\ last.pre.vcpu.regs["rcx"] # last.pre.vcpu.rip
    /\ vcpu.rip = last.args.entry_ip

\* C23: enclave_exit validates nothing.  Whatever the snapshot, also one
\* whose mask enclave_enter would refuse, it stores the snapshot as
\* non-enter state at exit_ip and then sets rcx to aep; it fails only when
\* the store fails, and then rcx is not written.
C23_ExitStoresWithoutValidation ==
    last.op = "exit" =>
        /\ last.err \in {"Ok", "EIO"}
        /\ enclave_exit(last.pre.vcpu, last.args.exit_ip, last.args.aep,
                        last.args.normal_world_state, TRUE).err = "Ok"
        /\ last.err = "Ok" =>
               /\ Ctrl(vcpu) = last.args.normal_world_state
               /\ vcpu.rip = last.args.exit_ip
               /\ ~vcpu.is_enter
               /\ vcpu.regs["rcx"] = last.args.aep
               /\ \A r \in RegNames \ {"rcx"} :
                      vcpu.regs[r] = last.pre.vcpu.regs[r]
        /\ last.err = "EIO" =>
               /\ vcpu.regs = last.pre.vcpu.regs
               /\ Ctrl(vcpu) = Ctrl(last.pre.vcpu)
               /\ vcpu.rip = last.pre.vcpu.rip
               /\ vcpu.stores = last.pre.vcpu.stores + 1

C23_Witness ==
    /\ last.op = "exit"
    /\ last.err = "Ok"
    /\ validate_xfrm(last.pre.vcpu, last.args.normal_world_state.xcr0) # "Ok"
    /\ vcpu.xcr0 = last.args.normal_world_state.xcr0
    /\ last.pre.vcpu.regs["rcx"] # last.args.aep

\* C24: an asynchronous exit whose exception carries misc detail leaves
\* exactly that fault address and error code in the misc record of the SSA;
\* one without misc detail leaves the record as it was, so what an earlier
\* exit wrote stays there.
C24_AexMiscRecord ==
    AexDone =>
        IF last.args.aex_excep.misc.some
        THEN /\ ssa.misc.exinfo.maddr = last.args.aex_excep.misc.val.maddr
             /\ ssa.misc.exinfo.errcd = last.args.aex_excep.misc.val.errcd
        ELSE ssa.misc = last.pre.ssa.misc

C24_Witness ==
    /\ AexDone
    /\ ~last.args.aex_excep.misc.some
    /\ ssa.misc.exinfo # MiscSgx(0, {})

\* C25: each of enclave_enter, enclave_exit, enclave_aex and enclave_resume
\* attempts the thread-state store at most once and never again after a
\* failure; when the store fails the call returns at once: the asynchronous
\* exit neither scrubs nor hands off, the resume restores no register.
C25_StoreOnceNoRetry ==
    last.op \in {"enter", "exit", "aex", "resume"} =>
        LET n == vcpu.stores - last.pre.vcpu.stores
        IN  /\ n \in {0, 1}
            /\ last.err = "EINVAL" => n = 0
            /\ last.err \in {"Ok", "EIO"} => n = 1
            /\ last.err = "EIO" =>
                   /\ pc \notin {"aex", "resume"}
                   /\ Ctrl(vcpu) = Ctrl(last.pre.vcpu)
                   /\ vcpu.rsp = last.pre.vcpu.rsp
                   /\ last.op # "enter" => vcpu.regs = last.pre.vcpu.regs
                   /\ last.op = "resume" => xregs = last.pre.xregs

C25_Witness ==
    /\ last.op = "aex"
    /\ last.err = "EIO"
    /\ vcpu.stores = last.pre.vcpu.stores + 1
    /\ ssa.gpr.regs = vcpu.regs
    /\ vcpu.regs # DefaultRegs

\* C26: the mask validation is one relation on both paths: for every CR4,
\* XCR0 and xfrm, enclave_enter refuses the mask exactly when enclave_resume
\* (on an SSA whose saved image is acceptable) refuses it, and with the same
\* error.
C26_SameValidationOnBothPaths ==
    \A xfrm \in XfrmVals :
        LET e == enclave_enter(vcpu,
                     [entry_ip |-> 0, fs_base |-> 0, gs_base |-> 0,
                      xfrm |-> xfrm, cssa |-> 0, hv_page_table_root |-> 0,
                      page_table_root |-> 0], enclave_interrupt, TRUE).err
            r == ResValidate([Machine EXCEPT !.ssa.xsave.bv = {}],
                             [xfrm |-> xfrm])
        IN  e = r

C26_Witness ==
    /\ last.op = "resume"
    /\ last.err = "EINVAL"
    /\ XsaveRegion_validate_at_resume(last.pre.ssa.xsave, last.args.xfrm)
    /\ CR4_OSXSAVE \notin last.pre.vcpu.cr4
    /\ enclave_enter(last.pre.vcpu,
                     [entry_ip |-> 0, fs_base |-> 0, gs_base |-> 0,
                      xfrm |-> last.args.xfrm, cssa |-> 0,
                      hv_page_table_root |-> 0, page_table_root |-> 0],
                     enclave_interrupt, TRUE).err = "EINVAL"

\* SgxSecs::validate has returned after computing the minimum save size.
SecsSized == secs.pc = "done" /\ secs.res.xsave_size.some
\* The components of the requested mask.
SecsLeaves == secs.secs.xfrm \cap XsaveLeaves
\* The largest end of the legacy area with its header and of the
\* components of the requested mask.
C27_Maximum ==
    LET ends == {XSAVE_LEGACY_REGION_SIZE + XSAVE_HEADER_SIZE} \cup
                {secs.cpuid.info[k].offset + secs.cpuid.info[k].size :
                     k \in SecsLeaves}
    IN  CHOOSE e \in ends : \A f \in ends : f <= e
\* The components of the requested mask are not empty and their areas
\* overlap neither one another nor the legacy area and its header.
C27_DisjointAreas ==
    \A k \in SecsLeaves :
        LET c == secs.cpuid.info[k]
        IN  /\ c.size > 0
            /\ c.offset >= XSAVE_LEGACY_REGION_SIZE + XSAVE_HEADER_SIZE
            /\ \A j \in SecsLeaves \ {k} :
                   LET d == secs.cpuid.info[j]
                   IN  \/ c.offset + c.size <= d.offset
                       \/ d.offset + d.size <= c.offset

\* C27 as claimed: for every xfrm and every table of (offset, size) values
\* the computed minimum save size is the maximum of legacy size + header
\* size and of offset + size over the components set in xfrm.
C27_Original_XsaveSizeIsMaximum ==
    SecsSized => secs.res.xsave_size.val = C27_Maximum

\* C27: the computed minimum save size is that maximum for every xfrm and
\* every table in which the components set in xfrm are not empty and their
\* areas overlap neither one another nor the legacy area and its header,
\* also when a component starts below the end of one visited before it.
C27_XsaveSizeIsMaximumOfDisjointAreas ==
    (SecsSized /\ C27_DisjointAreas) =>
        secs.res.xsave_size.val = C27_Maximum

C27_Witness ==
    /\ SecsSized
    /\ C27_DisjointAreas
    /\ SecsLeaves = XsaveLeaves
    /\ secs.cpuid.info[XCR0_BNDREG_STATE].offset <
           secs.cpuid.info[XCR0_AVX_STATE].offset +
           secs.cpuid.info[XCR0_AVX_STATE].size
    /\ secs.res.xsave_size.val >
           XSAVE_LEGACY_REGION_SIZE + XSAVE_HEADER_SIZE

\* SgxSecs::validate has returned.
SecsDone == secs.pc = "done"
\* The minimum frame size computed from the minimum save size, and the
\* frame size the caller declared.
C28_Needed == secs.res.xsave_size.val + MiscSgxSize + GprSgxSize
C28_Declared == secs.secs.ssa_frame_size * PAGE_SIZE

\* C28: a descriptor that reaches the frame checks is rejected when the
\* declared frame size (ssa_frame_size pages) is below the computed
\* minimum, rejected when the computed minimum is above SSA_FRAME_SIZE even
\* though the declared size is large enough, and accepted only when the
\* computed minimum is at most both.
C28_FrameSizeChecks ==
    SecsSized =>
        /\ C28_Declared < C28_Needed => secs.res.err = "EINVAL"
        /\ C28_Needed > SSA_FRAME_SIZE => secs.res.err = "EINVAL"
        /\ secs.res.err = "Ok" <=>
               (C28_Needed <= C28_Declared /\ C28_Needed <= SSA_FRAME_SIZE)

C28_Witness ==
    /\ SecsSized
    /\ C28_Needed <= C28_Declared
    /\ C28_Needed > SSA_FRAME_SIZE
    /\ secs.res.err = "EINVAL"

\* C29: the size check passes exactly for a size that is a power of two
\* and at least one page, so one page is the smallest accepted size and
\* one page plus one byte is refused; a descriptor whose ms_buf_size is zero
\* or not a multiple of the page size is rejected.
C29_SizeAndMsBufChecks ==
    SecsDone =>
        /\ secs.res.check # "size" <=>
               \E k \in 0 .. 2 * PAGE_SIZE :
                   /\ secs.secs.size = 2 ^ k
                   /\ secs.secs.size >= PAGE_SIZE
        /\ \A n \in 1 .. PAGE_SIZE - 1 :
               secs.secs.size = n => secs.res.check = "size"
        /\ secs.secs.size = PAGE_SIZE + 1 => secs.res.check = "size"
        /\ (secs.secs.ms_buf_size = 0 \/
            secs.secs.ms_buf_size % PAGE_SIZE # 0) =>
               secs.res.err = "EINVAL"

C29_Witness ==
    /\ SecsDone
    /\ secs.secs.size = PAGE_SIZE
    /\ secs.res.err = "Ok"

\* C30: a requested mask lacking bit 0 or bit 1 is rejected, and so is a
\* mask with a bit outside the supported XCR0 bits; a descriptor that
\* reaches the mask checks passes them exactly when its mask contains both
\* legacy bits and is a subset of the supported bits.
C30_MaskChecks ==
    SecsDone =>
        /\ (XCR0_FPU_MMX_STATE \notin secs.secs.xfrm \/
            XCR0_SSE_STATE \notin secs.secs.xfrm) =>
               secs.res.err = "EINVAL"
        /\ ~(secs.secs.xfrm \subseteq secs.cpuid.supported) =>
               secs.res.err = "EINVAL"
        /\ secs.res.check \notin {"size", "ms_buf_size"} =>
               (secs.res.check \notin {"xfrm_template", "xfrm_supported"} <=>
                   /\ {XCR0_FPU_MMX_STATE, XCR0_SSE_STATE} \subseteq
                          secs.secs.xfrm
                   /\ secs.secs.xfrm \subseteq secs.cpuid.supported)

C30_Witness ==
    /\ SecsDone
    /\ secs.res.check = "xfrm_supported"
    /\ SECS_XFRM_TEMPLATE \subseteq secs.secs.xfrm
    /\ XCR0_BNDREG_STATE \in secs.secs.xfrm
    /\ XCR0_BNDREG_STATE \notin secs.cpuid.supported

\* C31: in every backend, reading or writing a control register with an
\* index outside the defined family panics; set_cr(i, v) on a defined index
\* makes a following cr(i) return v and leaves every other index as it was.
C31_CrAccessContract ==
    (acc # AccNone /\ acc.last.op \in {"cr", "set_cr"}) =>
        /\ acc.last.idx \notin CrFamily => acc.last.res.panic
        /\ (acc.last.op = "set_cr" /\ acc.last.idx \in CrFamily) =>
               /\ ~acc.last.res.panic
               /\ cr(acc.backend, acc.st, acc.last.idx) =
                      Returned(acc.st, acc.last.val)
               /\ \A j \in CrFamily \ {acc.last.idx} :
                      cr(acc.backend, acc.st, j) =
                          cr(acc.backend, acc.last.pre, j)

\* C32: in every backend, stack_pointer() after set_stack_pointer(v)
\* returns v, and set_stack_pointer leaves the instruction pointer and the
\* general registers as they were.
C32_SetStackPointerRoundTrip ==
    (acc # AccNone /\ acc.last.op = "set_stack_pointer") =>
        /\ stack_pointer(acc.st) = acc.last.val
        /\ instr_pointer(acc.st) = instr_pointer(acc.last.pre)
        /\ acc.st.x = acc.last.pre.x

\* The outcome of a page fault classified as null, private, shared or
\* illegal.
C33_Outcome(c, class) ==
    LET linux == IF class = "illegal"
                 THEN {PF_PROTECTION_VIOLATION, PF_USER_MODE} ELSE FxCode(c)
        misc == IF class = "shared"
                THEN FxCode(c) \cup {SHARED_MEM_FETCH} ELSE FxCode(c)
    IN  HvOk(Some(page_fault_in_encl(linux, misc, FxAddr(c))))

\* C33: a page fault is classified in a fixed order: the null address
\* first, then the private range, then the shared-memory range, then the
\* illegal access.  An address in both the private and the shared range is
\* handled as a private-range fault, and neither it nor the null address
\* makes the call take the shared-memory lock.
C33_PageFaultPriority ==
    \A c \in Cores :
        /\ FxPageFault(c) =>
               fx[c].res =
                   C33_Outcome(c,
                       IF FxAddr(c) = 0 THEN "null"
                       ELSE IF Contains(ELRANGE, FxAddr(c)) THEN "private"
                       ELSE IF fx[c].obs THEN "shared"
                       ELSE "illegal")
        /\ (fx[c].pc = "shmem" \/ c \in rwlock.readers) =>
               /\ FxAddr(c) # 0
               /\ ~Contains(ELRANGE, FxAddr(c))

C33_Witness ==
    \E c \in Cores :
        /\ FxPageFault(c)
        /\ wr.pc = "idle"
        /\ Contains(ELRANGE, FxAddr(c))
        /\ Contains(shmem, FxAddr(c))
        /\ SHARED_MEM_FETCH \notin FxInfo(c).aex_excep.val.misc.val.errcd
        /\ \E d \in Cores \ {c} :
               /\ FxPageFault(d)
               /\ FxAddr(d) = 0
               /\ SHARED_MEM_FETCH \notin
                      FxInfo(d).aex_excep.val.misc.val.errcd

\* The fault address the secure world gets from a constructor's result.
C34_SecureAddr ==
    IF ex.arm THEN ex.res.aex_excep.val.cr2
    ELSE Some(ex.res.aex_excep.val.misc.val.maddr)

\* C34: page_fault_in_encl gives the normal world the fault address rounded
\* down to its page boundary and the secure world the exact fault address;
\* page_fault_out_encl gives the normal world the exact address and has no
\* secure-world view.
C34_PageFaultAddresses ==
    /\ ex.ctor = "page_fault_in_encl" =>
           /\ ex.res.linux_info.cr2.some
           /\ ex.res.linux_info.cr2.val % PAGE_SIZE = 0
           /\ ex.res.linux_info.cr2.val <= ex.fault_vaddr
           /\ ex.fault_vaddr < ex.res.linux_info.cr2.val + PAGE_SIZE
           /\ ex.res.aex_excep.some
           /\ C34_SecureAddr = Some(ex.fault_vaddr)
    /\ ex.ctor = "page_fault_out_encl" =>
           /\ ex.res.linux_info.cr2 = Some(ex.fault_vaddr)
           /\ ex.res.aex_excep = None

C34_Witness ==
    /\ ex.ctor = "page_fault_in_encl"
    /\ ~ex.arm
    /\ ex.fault_vaddr % PAGE_SIZE # 0
    /\ ex.res.linux_info.cr2 # C34_SecureAddr

\* C35: invalid_opcode and general_protection build a secure-world view
\* exactly when the fault was raised in enclave mode, and the normal-world
\* view does not depend on the mode: the vector, the error code of a
\* general-protection fault, no fault address.
C35_SecureViewOnlyInEnclaveMode ==
    ex.ctor \in {"invalid_opcode", "general_protection"} =>
        /\ ex.res.aex_excep.some <=> ex.in_encl
        /\ ex.res.linux_info.cr2 = None
        /\ ex.res.linux_info.error_code =
               IF ex.ctor = "invalid_opcode" THEN None
               ELSE Some(ex.error_code)
        /\ ex.res.linux_info.exception_type =
               CASE ex.arm /\ ex.ctor = "invalid_opcode" ->
                        "UndefinedInstruction"
                 [] ex.arm -> "DataAbort"
                 [] ex.ctor = "invalid_opcode" -> InvalidOpcode
                 [] OTHER -> GeneralProtectionFault

C35_Witness ==
    /\ ex.ctor = "general_protection"
    /\ ~ex.arm
    /\ ~ex.in_encl
    /\ ex.res.aex_excep = None
    /\ ex.error_code # {}

\* C36: enclave_resume never writes the SSA: while a resume is in progress
\* and after it has returned, with success or with an error, the general
\* register record, the misc record and the extended-state image are what
\* they were at the call.
C36_ResumeLeavesSsa ==
    last.op = "resume" =>
        /\ ssa.gpr = last.pre.ssa.gpr
        /\ ssa.misc = last.pre.ssa.misc
        /\ ssa.xsave = last.pre.ssa.xsave

C36_Witness ==
    /\ last.op = "resume"
    /\ last.err = "Ok"
    /\ xregs # last.pre.xregs
    /\ vcpu.regs = ssa.gpr.regs
    /\ ssa.xsave.bv # {}
    /\ ssa.misc.exinfo # MiscSgx(0, {})

\* C37: the flags enclave_resume installs are bit for bit the flags of the
\* SSA's general-register record: the interrupt-enable policy of the build
\* is not applied again, the bit is what the SSA holds.
C37_ResumeFlagsFromSsa ==
    (last.op = "resume" /\ last.err = "Ok") =>
        /\ vcpu.rflags = last.pre.ssa.gpr.rflags
        /\ RFLAGS_INTERRUPT_FLAG \in vcpu.rflags <=>
               RFLAGS_INTERRUPT_FLAG \in ssa.gpr.rflags

C37_Witness ==
    /\ last.op = "resume"
    /\ last.err = "Ok"
    /\ ~enclave_interrupt
    /\ RFLAGS_INTERRUPT_FLAG \in vcpu.rflags
    /\ vcpu.rflags # last.pre.vcpu.rflags

\* C38: the two enclave-specific page-fault bits are distinct from each
\* other and from every hardware-defined bit (0 to 4), the hardware bits
\* being exactly X86_PF_ERROR_CODE; so when a shared-memory fault adds
\* SHARED_MEM_FETCH to a hardware error code e, masking the result with the
\* hardware bits gives e again.
C38_EnclaveBitsDisjoint ==
    /\ EPCM_ATTR_MISMATCH # SHARED_MEM_FETCH
    /\ X86_PF_ERROR_CODE = 0 .. 4
    /\ {EPCM_ATTR_MISMATCH, SHARED_MEM_FETCH} \cap X86_PF_ERROR_CODE = {}
    /\ \A c \in Cores :
           (FxSharedAccess(c) /\ FxCode(c) \subseteq 0 .. 4) =>
               LET errcd == FxInfo(c).aex_excep.val.misc.val.errcd
               IN  /\ errcd \cap X86_PF_ERROR_CODE = FxCode(c)
                   /\ errcd \ X86_PF_ERROR_CODE = {SHARED_MEM_FETCH}

C38_Witness ==
    \E c \in Cores :
        /\ FxSharedAccess(c)
        /\ FxCode(c) = {PF_CAUSED_BY_WRITE, PF_INSTRUCTION_FETCH}
        /\ SHARED_MEM_FETCH \in FxInfo(c).aex_excep.val.misc.val.errcd

\* The bytes the first n hardware words of ws spell out, in order.
RECURSIVE RngBytes(_)
RngBytes(ws) ==
    IF ws = <<>> THEN <<>> ELSE to_ne_bytes(Head(ws)) \o RngBytes(Tail(ws))

\* C39: for a buffer of any length, also one that is not a multiple of 4,
\* a fill_bytes call in which every hardware request succeeded ends by
\* returning, with every byte of the buffer written from the hardware
\* words in order; a failed request aborts at once, nothing being asked of
\* the hardware after it.
C39_FillBytesFillsAnyLength ==
    /\ (rng.pc \in {"done", "panic"} /\ ~rng.failed) =>
           /\ rng.pc = "done"
           /\ rng.off = Len(rng.buf)
           /\ rng.buf = SubSeq(RngBytes(rng.words), 1, Len(rng.buf))
    /\ rng.failed => rng.pc = "abort"

\* The part of C39 that the code does meet: buffers whose length is a
\* multiple of 4 are filled entirely, and a failure aborts.
C39_WholeWords ==
    /\ (rng.pc = "done" /\ Len(rng.buf) % WordSize = 0) =>
           /\ rng.off = Len(rng.buf)
           /\ rng.buf = RngBytes(rng.words)
    /\ (rng.pc = "panic") => Len(rng.buf) % WordSize # 0
    /\ rng.failed => rng.pc = "abort"

====
